---- MODULE Spec2Model ----
(***************************************************************************)
(* Model of the in-page behavioural tracker, public/tracker.js.            *)
(*                                                                         *)
(* The tracker is one closure whose variables are mutated synchronously by *)
(* event handlers of the host page.  Each handler of the source is a pure  *)
(* operator from a state record to a state record (same name as in the     *)
(* source); an action takes the current variables as a record (Cur),       *)
(* applies the whole handler and stores the resulting record (Commit).     *)
(* Times are milliseconds, as returned by Date.now().                      *)
(***************************************************************************)
EXTENDS Integers, Sequences, FiniteSets, TLC

VARIABLES
    now,                  \* Date.now()
    sessionStore,         \* sessionStorage['bi_session']: NoSession or [id, lastActivity]
    visitorStore,         \* localStorage['bi_visitor']: NoId or an id
    idsMinted,            \* number of ids generateId() has returned
    dom,                  \* the forms of the document, in document order
    timers,               \* pending setTimeout callbacks, in scheduling order
    sessionId, pageEntryTime, maxScrollDepth, clickCount, isVisible,
    totalVisibleTime, lastVisibilityChange, lastScrollDepthSent,
    interactionCount,
    recentClicks, mouseMovements, lastMousePosition,
    deadClickCount, rageClickCount,
    activeForms,          \* the Map form -> record, in insertion order
    sent,                 \* envelopes handed to the transport by the last step
    lastInput,            \* the host-page event the last step handled
    pageLoad,             \* number of page loads so far
    lastIndex,            \* interactionIndex of the last envelope of this page load
    formHist,             \* per form: events emitted in its current lifecycle
    clickHist,            \* the clicks of this page, with the signal each produced
    scrollHist,           \* the scroll events of this page: [depth, milestones]
    pointer,              \* the pointer of this run: [gap, points], the spacing of
                          \* its mousemove events and the places it visits
    net,                  \* the transport of the browser: [beacon, up], whether
                          \* navigator.sendBeacon exists and whether deliveries succeed
    wire,                 \* the delivery attempts of the last step: [via, index, ok]
    shot                  \* the screenshot capture: library loader, captures in
                          \* progress, the sensitive element, responses posted

vars == <<now, sessionStore, visitorStore, idsMinted, dom, timers,
          sessionId, pageEntryTime, maxScrollDepth, clickCount, isVisible,
          totalVisibleTime, lastVisibilityChange, lastScrollDepthSent,
          interactionCount, recentClicks, mouseMovements, lastMousePosition,
          deadClickCount, rageClickCount, activeForms, sent, lastInput,
          pageLoad, lastIndex, formHist, clickHist, scrollHist, pointer,
          net, wire, shot>>

\* absent values: a reason or key, an id, the stored session, a field
NoValue == "none"

NoId == 0

NoSession == [id |-> NoId, lastActivity |-> 0]

NoField == [name |-> "", type |-> ""]

\* ---------------------------------------------------------------------
\* Program constants
\* ---------------------------------------------------------------------
SESSION_TIMEOUT == 1800000
RAGE_WINDOW == 500
RAGE_DISTANCE == 50
RAGE_CLICKS == 3
THRASH_WINDOW == 1000
THRASH_DISTANCE == 500
THRASH_CHANGES == 4
THRASH_MIN_SAMPLES == 10
MOVE_THROTTLE == 50
MOVE_WINDOW == 2000
DEFER_DELAY == 100
SCROLL_DEBOUNCE == 500

\* ---------------------------------------------------------------------
\* Bounds of the model
\* ---------------------------------------------------------------------
MaxClicks == 5
MaxDeadClicks == 3
MaxMoves == 11
MaxInteractions == 5
MaxModalEvents == 6
MaxTimers == 1
MaxLoads == 3
MaxClicksPerLoad == 2
HistCap == 2
MaxScrolls == 4

\* ---------------------------------------------------------------------
\* The state as a record
\* ---------------------------------------------------------------------
Cur ==
    [now |-> now, sessionStore |-> sessionStore, visitorStore |-> visitorStore,
     idsMinted |-> idsMinted, dom |-> dom, timers |-> timers,
     sessionId |-> sessionId, pageEntryTime |-> pageEntryTime,
     maxScrollDepth |-> maxScrollDepth, clickCount |-> clickCount,
     isVisible |-> isVisible, totalVisibleTime |-> totalVisibleTime,
     lastVisibilityChange |-> lastVisibilityChange,
     lastScrollDepthSent |-> lastScrollDepthSent,
     interactionCount |-> interactionCount, recentClicks |-> recentClicks,
     mouseMovements |-> mouseMovements, lastMousePosition |-> lastMousePosition,
     deadClickCount |-> deadClickCount, rageClickCount |-> rageClickCount,
     activeForms |-> activeForms, out |-> <<>>, ret |-> FALSE, thrown |-> FALSE,
     net |-> net, wire |-> <<>>, shot |-> shot]

At(s, dt) == [s EXCEPT !.now = @ + dt]

Min(a, b) == IF a < b THEN a ELSE b

Abs(a) == IF a < 0 THEN -a ELSE a

\* ---------------------------------------------------------------------
\* Identity manager
\* ---------------------------------------------------------------------
generateId(s) == [s EXCEPT !.idsMinted = @ + 1, !.ret = s.idsMinted + 1]

getOrCreateSessionId(s) ==
    LET stored == s.sessionStore
    IN  IF stored # NoSession /\ s.now - stored.lastActivity < SESSION_TIMEOUT
        THEN [s EXCEPT !.sessionStore = [id |-> stored.id, lastActivity |-> s.now],
                       !.ret = stored.id]
        ELSE LET g == generateId(s)
             IN  [g EXCEPT !.sessionStore = [id |-> g.ret, lastActivity |-> s.now]]

\* (mutation) an id is minted and stored on every call
getVisitorId_Fresh(s) ==
    LET g == generateId(s)
    IN  [g EXCEPT !.visitorStore = g.ret]

getVisitorId(s) ==
    IF s.visitorStore # NoId
    THEN [s EXCEPT !.ret = s.visitorStore]
    ELSE LET g == generateId(s)
         IN  [g EXCEPT !.visitorStore = g.ret]

\* ---------------------------------------------------------------------
\* Transport
\* ---------------------------------------------------------------------
collectBaseData(s) ==
    LET v == getVisitorId(s)
    IN  [v EXCEPT !.ret = [sessionId |-> s.sessionId, visitorId |-> v.ret,
                           timestamp |-> s.now]]

\* (mutation) a delivery that fails is attempted once more
deliver_Retry(s, payload) ==
    LET attempt == [via |-> IF s.net.beacon THEN "beacon" ELSE "fetch",
                    index |-> payload.interactionIndex, ok |-> s.net.up]
    IN  [s EXCEPT !.wire = IF s.net.up THEN Append(@, attempt)
                           ELSE Append(Append(@, attempt), attempt)]

\* lines 150-159: navigator.sendBeacon when it exists, whose result is not
\* looked at, else one fetch with keepalive whose rejection is swallowed
deliver(s, payload) ==
    [s EXCEPT !.wire = Append(@, [via |-> IF s.net.beacon THEN "beacon" ELSE "fetch",
                                  index |-> payload.interactionIndex,
                                  ok |-> s.net.up])]

sendEvent(s, eventType, eventData) ==
    LET s1 == [s EXCEPT !.interactionCount = @ + 1]
        b  == collectBaseData(s1)
        payload == [sessionId |-> b.ret.sessionId, visitorId |-> b.ret.visitorId,
                    timestamp |-> b.ret.timestamp, eventType |-> eventType,
                    eventData |-> eventData,
                    interactionIndex |-> s1.interactionCount]
    IN  [deliver(b, payload) EXCEPT !.out = Append(@, payload), !.ret = FALSE]

\* ---------------------------------------------------------------------
\* Elements a click can hit
\* ---------------------------------------------------------------------
\* A click target is a record of the DOM properties the handlers read:
\*   tag, id, classes (in class-attribute order), styleCursor (inline
\*   style), computedCursor, role, onclick (property or attribute set),
\*   insideInteractive (an ancestor matches a, button, input, select,
\*   textarea or [role="button"]), text (lower-cased innerText or value),
\*   type, dismiss (data-dismiss or an aria-label containing "close"),
\*   nearForm (index in dom of the form that lines 344-362 resolve to, 0
\*   when there is none).
\*   node ("html" for an HTML element, "foreign" for an element of another
\*   namespace without a style property, "document" for the document node,
\*   which has neither tagName nor style), numericValue (the value property
\*   is a number, as that of li, meter and progress elements).
\* A handler that raises a TypeError returns the state it had reached, with
\* thrown set; the event dispatcher ends the listener there.
Contains(q, x) == \E i \in DOMAIN q : q[i] = x

\* element.tagName.toLowerCase() of line 89 can be evaluated
hasTagName(el) == el.node # "document"

\* target.style.cursor of line 424 can be evaluated
hasStyle(el) == el.node = "html"

\* (target.innerText || target.value || '').toLowerCase() of line 330 can
\* be evaluated
hasStringText(el) == el.text # "" \/ ~el.numericValue

getElementSelector(el) ==
    IF el.id # "" THEN <<el.tag, "#", el.id>>
    ELSE IF el.classes # <<>>
         THEN <<el.tag, ".", SubSeq(el.classes, 1, Min(2, Len(el.classes)))>>
         ELSE <<el.tag>>

ClickableTags == {"a", "button", "input", "select", "textarea", "label"}

isClickableElement(el) ==
    \/ el.tag \in ClickableTags
    \/ el.role = "button"
    \/ el.onclick
    \/ el.styleCursor = "pointer"
    \/ el.computedCursor = "pointer"

\* (mutation) the element itself is tested, its ancestors are not
closestInteractive_SelfOnly(el) ==
    \/ el.tag \in {"a", "button", "input", "select", "textarea"}
    \/ el.role = "button"

\* target.closest('a, button, input, select, textarea, [role="button"]')
closestInteractive(el) ==
    \/ el.tag \in {"a", "button", "input", "select", "textarea"}
    \/ el.role = "button"
    \/ el.insideInteractive

\* ---------------------------------------------------------------------
\* Click pattern analyzer
\* ---------------------------------------------------------------------
\* (mutation) the vertical distance is not compared
inSameArea_XOnly(c, firstClick) ==
    Abs(c.x - firstClick.x) < RAGE_DISTANCE

\* the test of lines 397-398 on one buffered click
inSameArea(c, firstClick) ==
    /\ Abs(c.x - firstClick.x) < RAGE_DISTANCE
    /\ Abs(c.y - firstClick.y) < RAGE_DISTANCE

\* (mutation) one click more is asked for
enoughClicks_Four(kept) == Len(kept) > RAGE_CLICKS

\* the test of line 394 on the filtered buffer
enoughClicks(kept) == Len(kept) >= RAGE_CLICKS

\* (mutation) the buffer survives the emission
clearedBuffer_Kept(kept) == kept

\* recentClicks = [] of line 413
clearedBuffer(kept) == <<>>

\* (mutation) no click is ever too old
inWindow_All(c, t) == TRUE

\* the filter of line 392 on one buffered click, t being Date.now()
inWindow(c, t) == t - c.time < RAGE_WINDOW

detectRageClick(s, ev) ==
    IF ~hasTagName(ev.target) THEN [s EXCEPT !.thrown = TRUE] ELSE
    LET pushed == Append(s.recentClicks,
                         [time |-> s.now, x |-> ev.clientX, y |-> ev.clientY,
                          element |-> getElementSelector(ev.target)])
        InWindow(c) == inWindow(c, s.now)
        kept == SelectSeq(pushed, InWindow)
        firstClick == kept[1]
        allInSameArea == \A i \in DOMAIN kept : inSameArea(kept[i], firstClick)
    IN  IF enoughClicks(kept) /\ allInSameArea
        THEN LET s1 == [s EXCEPT !.rageClickCount = @ + 1]
                 s2 == sendEvent(s1, "rage_click",
                           [clickCount |-> Len(kept),
                            timeWindow |-> s.now - firstClick.time,
                            x |-> ev.clientX, y |-> ev.clientY,
                            element |-> getElementSelector(ev.target),
                            totalRageClicks |-> s1.rageClickCount])
             IN  [s2 EXCEPT !.recentClicks = clearedBuffer(kept), !.ret = TRUE]
        ELSE [s EXCEPT !.recentClicks = kept, !.ret = FALSE]

looksClickable(el) ==
    \/ el.styleCursor = "pointer"
    \/ el.computedCursor = "pointer"
    \/ el.tag = "img"
    \/ Contains(el.classes, "btn")
    \/ Contains(el.classes, "button")
    \/ Contains(el.classes, "link")
    \/ Contains(el.classes, "clickable")

isActuallyClickable(el) == isClickableElement(el) \/ closestInteractive(el)

detectDeadClick(s, ev) ==
    IF ~hasStyle(ev.target) THEN [s EXCEPT !.thrown = TRUE] ELSE
    IF looksClickable(ev.target) /\ ~isActuallyClickable(ev.target)
    THEN LET s1 == [s EXCEPT !.deadClickCount = @ + 1]
             s2 == sendEvent(s1, "dead_click",
                       [element |-> getElementSelector(ev.target),
                        x |-> ev.clientX, y |-> ev.clientY,
                        totalDeadClicks |-> s1.deadClickCount,
                        reason |-> "looks_clickable_but_not_interactive"])
         IN  [s2 EXCEPT !.ret = TRUE]
    ELSE [s EXCEPT !.ret = FALSE]

\* ---------------------------------------------------------------------
\* Mouse motion analyzer
\* ---------------------------------------------------------------------
RECURSIVE SqrtIter(_, _)
SqrtIter(n, x) ==
    LET y == (x + n \div x) \div 2
    IN  IF y >= x THEN x ELSE SqrtIter(n, y)

\* Math.sqrt on the squared length of a step.  The pointer positions of the
\* model lie on a 3-4-5 line, so every step has an integer length and the
\* integer root is the exact value.
Sqrt(n) == IF n = 0 THEN 0 ELSE SqrtIter(n, n)

Direction(dx, dy) ==
    <<IF dx > 0 THEN "R" ELSE "L", IF dy > 0 THEN "D" ELSE "U">>

RECURSIVE PathStats(_, _)
\* The loop of lines 466-479 from index i to the end of the buffer m:
\* [dist, changes, last] accumulated over the steps m[i-1] -> m[i].
PathStats(m, i) ==
    IF i < 2 THEN [dist |-> 0, changes |-> 0, last |-> <<>>]
    ELSE LET acc == PathStats(m, i - 1)
             dx == m[i].x - m[i - 1].x
             dy == m[i].y - m[i - 1].y
             dir == Direction(dx, dy)
         IN  [dist |-> acc.dist + Sqrt(dx * dx + dy * dy),
              changes |-> IF acc.last # <<>> /\ dir # acc.last
                          THEN acc.changes + 1 ELSE acc.changes,
              last |-> dir]

\* (mutation) either threshold is enough
isThrashing_Either(st) ==
    st.dist > THRASH_DISTANCE \/ st.changes >= THRASH_CHANGES

\* the test of line 481 on the accumulated [dist, changes]
isThrashing(st) ==
    st.dist > THRASH_DISTANCE /\ st.changes >= THRASH_CHANGES

detectMouseThrashing(s) ==
    LET InWindow(m) == s.now - m.time < THRASH_WINDOW
        kept == SelectSeq(s.mouseMovements, InWindow)
        st == PathStats(kept, Len(kept))
    IN  IF Len(kept) < THRASH_MIN_SAMPLES
        THEN [s EXCEPT !.mouseMovements = kept, !.ret = FALSE]
        ELSE IF isThrashing(st)
             THEN LET s1 == [s EXCEPT !.mouseMovements = kept]
                      s2 == sendEvent(s1, "mouse_thrash",
                                [totalDistance |-> st.dist,
                                 directionChanges |-> st.changes,
                                 duration |-> s.now - kept[1].time,
                                 movementCount |-> Len(kept)])
                  IN  [s2 EXCEPT !.mouseMovements = <<>>, !.ret = TRUE]
             ELSE [s EXCEPT !.mouseMovements = kept, !.ret = FALSE]

trackMouseMove(s, ev) ==
    LET n == Len(s.mouseMovements)
    IN  IF n > 0 /\ s.now - s.mouseMovements[n].time < MOVE_THROTTLE
        THEN s
        ELSE LET pushed == Append(s.mouseMovements,
                               [time |-> s.now, x |-> ev.clientX, y |-> ev.clientY])
                 InWindow(m) == s.now - m.time < MOVE_WINDOW
                 s1 == [s EXCEPT !.mouseMovements = SelectSeq(pushed, InWindow)]
                 s2 == detectMouseThrashing(s1)
             IN  [s2 EXCEPT !.lastMousePosition = [x |-> ev.clientX, y |-> ev.clientY]]

\* ---------------------------------------------------------------------
\* Strings
\* ---------------------------------------------------------------------
\* String.prototype.includes over the strings of the model: the pairs
\* <<text, pattern>> in which pattern is a proper substring of text.
ProperSubstrings ==
    {<<"password", "pass">>, <<"close dialog", "close">>,
     <<"no thanks", "no">>, <<"card_number", "card">>}

Includes(text, pattern) == text = pattern \/ <<text, pattern>> \in ProperSubstrings

\* String.prototype.trim() !== ''
NotBlank(v) == v # "" /\ v # " "

\* ---------------------------------------------------------------------
\* Form tracking
\* ---------------------------------------------------------------------
\* dom[f] is a form element: [id, container, attached, rendered, fixed, fields],
\* fields being its input/select/textarea elements in document order,
\* each [name, type, required, value].
HasForm(af, f) == \E i \in DOMAIN af : af[i].form = f

FormData(af, f) == af[CHOOSE i \in DOMAIN af : af[i].form = f]

SetForm(af, f, data) ==
    IF HasForm(af, f)
    THEN [i \in DOMAIN af |-> IF af[i].form = f THEN data ELSE af[i]]
    ELSE Append(af, data)

\* (mutation) the entry is left in the map
DeleteForm_Kept(af, f) == af

\* activeForms.delete(form)
DeleteForm(af, f) ==
    LET Other(e) == e.form # f
    IN  SelectSeq(af, Other)

RECURSIVE CountFilled(_, _)
CountFilled(fields, i) ==
    IF i = 0 THEN 0
    ELSE CountFilled(fields, i - 1)
         + (IF fields[i].value # "" /\ NotBlank(fields[i].value) THEN 1 ELSE 0)

getFormInfo(s, f) ==
    LET inputs == s.dom[f].fields
        filledFields == CountFilled(inputs, Len(inputs))
    IN  [formId |-> s.dom[f].id,
         totalFields |-> Len(inputs),
         filledFields |-> filledFields,
         completionRate |-> IF Len(inputs) > 0
                            THEN (200 * filledFields + Len(inputs)) \div (2 * Len(inputs))
                            ELSE 0]

\* (mutation) the record is created without form_start
startTrackingForm_Silent(s, f) ==
    IF HasForm(s.activeForms, f) THEN s
    ELSE [s EXCEPT !.activeForms =
             SetForm(@, f, [form |-> f, startTime |-> s.now,
                            fieldsInteracted |-> <<>>,
                            lastField |-> NoField,
                            submitted |-> FALSE])]

startTrackingForm(s, f) ==
    IF HasForm(s.activeForms, f) THEN s
    ELSE LET s1 == [s EXCEPT !.activeForms =
                        SetForm(@, f, [form |-> f, startTime |-> s.now,
                                       fieldsInteracted |-> <<>>,
                                       lastField |-> NoField,
                                       submitted |-> FALSE])]
         IN  sendEvent(s1, "form_start", [info |-> getFormInfo(s1, f)])

\* (mutation) only an optional field counts as skipped
wasSkipped_OptionalOnly(previousField) ==
    /\ previousField.type # "password"
    /\ previousField.value = ""
    /\ ~previousField.required

\* the test of lines 233-235 on the field before the focused one
wasSkipped(previousField) ==
    /\ previousField.type # "password"
    /\ previousField.value = ""
    /\ previousField.required

trackFormFieldInteraction(s, f, i) ==
    LET s1 == IF HasForm(s.activeForms, f) THEN s ELSE startTrackingForm(s, f)
        field == s1.dom[f].fields[i]
        fieldName == field.name
        formData == FormData(s1.activeForms, f)
        formData2 == [formData EXCEPT
                        !.fieldsInteracted =
                            IF Contains(@, fieldName) THEN @ ELSE Append(@, fieldName),
                        !.lastField = [name |-> fieldName, type |-> field.type]]
        s2 == [s1 EXCEPT !.activeForms = SetForm(@, f, formData2)]
        previousField == s2.dom[f].fields[i - 1]
    IN  IF i > 1 /\ wasSkipped(previousField)
        THEN sendEvent(s2, "form_field_skip",
                 [info |-> getFormInfo(s2, f),
                  skippedField |-> previousField.name,
                  skippedFieldType |-> previousField.type,
                  movedToField |-> fieldName])
        ELSE s2

checkFormAbandonment(s, f, reason) ==
    IF ~HasForm(s.activeForms, f) THEN s
    ELSE LET formData == FormData(s.activeForms, f)
             formInfo == getFormInfo(s, f)
         IN  IF formData.submitted
             THEN [s EXCEPT !.activeForms = DeleteForm(@, f)]
             ELSE LET s1 == IF Len(formData.fieldsInteracted) > 0
                               /\ formInfo.filledFields > 0
                            THEN sendEvent(s, "form_abandonment",
                                     [info |-> formInfo, reason |-> reason,
                                      fieldsInteracted |-> formData.fieldsInteracted,
                                      lastFieldInteracted |-> formData.lastField.name,
                                      timeInForm |-> s.now - formData.startTime])
                            ELSE s
                  IN  [s1 EXCEPT !.activeForms = DeleteForm(@, f)]

\* (mutation) the record of a submitted form stays in the map
trackFormSubmit_Kept(s, f) ==
    IF HasForm(s.activeForms, f)
    THEN LET formData == FormData(s.activeForms, f)
         IN  sendEvent(s, "form_submit",
                 [info |-> getFormInfo(s, f),
                  fieldsInteracted |-> Len(formData.fieldsInteracted),
                  timeToComplete |-> s.now - formData.startTime])
    ELSE sendEvent(s, "form_submit", [info |-> getFormInfo(s, f)])

trackFormSubmit(s, f) ==
    IF HasForm(s.activeForms, f)
    THEN LET formData == FormData(s.activeForms, f)
             s1 == [s EXCEPT !.activeForms =
                        SetForm(@, f, [formData EXCEPT !.submitted = TRUE])]
             s2 == sendEvent(s1, "form_submit",
                       [info |-> getFormInfo(s1, f),
                        fieldsInteracted |-> Len(formData.fieldsInteracted),
                        timeToComplete |-> s.now - formData.startTime])
         IN  [s2 EXCEPT !.activeForms = DeleteForm(@, f)]
    ELSE sendEvent(s, "form_submit", [info |-> getFormInfo(s, f)])

\* form.offsetParent of line 775 is an element: it is null for a form that
\* is detached, has no layout box (display: none on it or above it), or is
\* itself positioned fixed
hasOffsetParent(form) == form.attached /\ form.rendered /\ ~form.fixed

RECURSIVE CheckEach(_, _, _, _)
\* activeForms.forEach(...) of lines 685-689, 773-778 and 798-802 over the
\* entries snap[i..]: an entry deleted before its turn is not visited.
CheckEach(s, snap, i, reason) ==
    IF i > Len(snap) THEN s
    ELSE LET f == snap[i].form
             s1 == IF /\ HasForm(s.activeForms, f)
                      /\ ~FormData(s.activeForms, f).submitted
                      /\ (reason = "escape_pressed" => ~hasOffsetParent(s.dom[f]))
                   THEN checkFormAbandonment(s, f, reason)
                   ELSE s
         IN  CheckEach(s1, snap, i + 1, reason)

\* The MutationObserver callback of setupFormObserver for one removed node:
\* node.isForm tells whether the node is itself the form node.form,
\* node.inner lists the forms below it in document order.
RECURSIVE ContainerRemoved(_, _, _)
ContainerRemoved(s, inner, i) ==
    IF i > Len(inner) THEN s
    ELSE ContainerRemoved(
             IF HasForm(s.activeForms, inner[i])
             THEN checkFormAbandonment(s, inner[i], "container_removed")
             ELSE s,
             inner, i + 1)

\* (mutation) only a removed form element is looked at
formObserver_FormOnly(s, node) ==
    IF node.isForm /\ HasForm(s.activeForms, node.form)
    THEN checkFormAbandonment(s, node.form, "form_removed")
    ELSE s

formObserver(s, node) ==
    LET s1 == IF node.isForm /\ HasForm(s.activeForms, node.form)
              THEN checkFormAbandonment(s, node.form, "form_removed")
              ELSE s
    IN  ContainerRemoved(s1, node.inner, 1)

CancelPatterns ==
    {"cancel", "close", "dismiss", "nevermind", "no thanks", "not now", "skip"}

isCancelButton(el) ==
    \/ \E p \in CancelPatterns : Includes(el.text, p)
    \/ el.type = "reset"
    \/ Contains(el.classes, "close")
    \/ Contains(el.classes, "cancel")
    \/ el.dismiss

detectFormCancelClick(s, ev) ==
    IF ~hasStringText(ev.target) THEN [s EXCEPT !.thrown = TRUE] ELSE
    LET form == ev.target.nearForm
    IN  IF isCancelButton(ev.target) /\ form # 0 /\ HasForm(s.activeForms, form)
        THEN [s EXCEPT !.timers = Append(@, [kind |-> "cancel", form |-> form,
                                            delay |-> DEFER_DELAY])]
        ELSE s

\* the callback of lines 366-370
cancelTimer(s, form) ==
    IF HasForm(s.activeForms, form)
    THEN checkFormAbandonment(s, form, "cancel_clicked")
    ELSE s

\* ---------------------------------------------------------------------
\* Standard tracking
\* ---------------------------------------------------------------------
\* AUTO_SCREENSHOT is off: no data-auto-screenshot attribute on the script.
trackPageView(s) == sendEvent(s, "pageview", [title |-> "page"])

\* (target.innerText || target.value || '').slice(0, 100).trim() of line
\* 562: the texts of the model are short and trimmed, so what is sent is
\* the text itself, for an input element its value
elementText(el) == el.text

\* (mutation) the dead-click detection runs on every click
deadCheck_Always(r, ev) == detectDeadClick(r, ev)

\* !isRageClick && detectDeadClick(event) of line 551, r being the state
\* detectRageClick returned
deadCheck(r, ev) ==
    IF r.ret THEN [r EXCEPT !.ret = FALSE] ELSE detectDeadClick(r, ev)

trackClick(s, ev) ==
    LET s1 == [s EXCEPT !.clickCount = @ + 1]
        r  == detectRageClick(s1, ev)
        isRageClick == r.ret
        d  == deadCheck(r, ev)
        isDeadClick == d.ret
        c  == detectFormCancelClick(d, ev)
    IN  IF r.thrown THEN r
        ELSE IF d.thrown THEN d
        ELSE IF c.thrown THEN c
        ELSE sendEvent(c, "click",
                 [elementType |-> ev.target.tag,
                  elementSelector |-> getElementSelector(ev.target),
                  elementText |-> elementText(ev.target),
                  x |-> ev.clientX, y |-> ev.clientY,
                  isRageClick |-> isRageClick, isDeadClick |-> isDeadClick])

\* (mutation) reading the statistics starts the counts afresh
getFrustrationStats_Reset(s) ==
    [s EXCEPT !.ret = [rageClicks |-> s.rageClickCount,
                       deadClicks |-> s.deadClickCount,
                       activeForms |-> Len(s.activeForms)],
              !.rageClickCount = 0, !.deadClickCount = 0]

\* BehavioralInsights.getFrustrationStats()
getFrustrationStats(s) ==
    [s EXCEPT !.ret = [rageClicks |-> s.rageClickCount,
                       deadClicks |-> s.deadClickCount,
                       activeForms |-> Len(s.activeForms)]]

\* a scroll position: [scrollTop, scrollHeight], scrollHeight being the
\* height of the document less that of the window
getScrollDepth(pos) ==
    IF pos.scrollHeight > 0
    THEN (200 * pos.scrollTop + pos.scrollHeight) \div (2 * pos.scrollHeight)
    ELSE 100

Milestones == <<25, 50, 75, 90, 100>>

\* (mutation) the milestone already reported is not looked at
crossed_Again(s, milestone) == s.maxScrollDepth >= milestone

crossed(s, milestone) ==
    s.maxScrollDepth >= milestone /\ s.lastScrollDepthSent < milestone

RECURSIVE ScrollLoop(_, _)
\* the for loop of lines 610-619 from Milestones[i] on; the break ends it
\* at the first milestone it reports
ScrollLoop(s, i) ==
    IF i > Len(Milestones) THEN s
    ELSE IF crossed(s, Milestones[i])
         THEN sendEvent([s EXCEPT !.lastScrollDepthSent = Milestones[i]],
                  "scroll_milestone",
                  [depth |-> Milestones[i], maxDepth |-> s.maxScrollDepth])
         ELSE ScrollLoop(s, i + 1)

trackScroll(s, pos) ==
    LET depth == getScrollDepth(pos)
        s1 == IF depth > s.maxScrollDepth THEN [s EXCEPT !.maxScrollDepth = depth]
              ELSE s
    IN  ScrollLoop(s1, 1)

\* (mutation) the pending debounce timer is left to fire
scrollListener_Stacked(s, pos) ==
    LET s1 == trackScroll(s, pos)
    IN  [s1 EXCEPT !.timers = Append(@, [kind |-> "scroll", form |-> 0,
                                         delay |-> SCROLL_DEBOUNCE])]

\* the scroll listener of init: the pending debounce timer is replaced
scrollListener(s, pos) ==
    LET s1 == trackScroll(s, pos)
        NotScroll(t) == t.kind # "scroll"
    IN  [s1 EXCEPT !.timers = Append(SelectSeq(@, NotScroll),
                                    [kind |-> "scroll", form |-> 0,
                                     delay |-> SCROLL_DEBOUNCE])]

\* the callback of lines 722-727
scrollTimer(s) ==
    sendEvent(s, "scroll",
        [depth |-> s.maxScrollDepth, timeToScroll |-> s.now - s.pageEntryTime])

SensitiveTypes == {"password", "credit-card", "cc-number", "cc-exp", "cc-csc"}

SensitiveNames ==
    {"password", "pwd", "pass", "credit", "card", "cvv", "cvc", "ssn", "social"}

trackFormFocus(s, f, i) ==
    LET input == s.dom[f].fields[i]
        s1 == trackFormFieldInteraction(s, f, i)
        isSensitive == \/ input.type \in SensitiveTypes
                       \/ \E n \in SensitiveNames : Includes(input.name, n)
    IN  IF ~isSensitive /\ input.type # "password"
        THEN sendEvent(s1, "form_interact",
                 [info |-> getFormInfo(s1, f), fieldType |-> input.type,
                  fieldName |-> input.name])
        ELSE s1

trackFormSubmitEvent(s, f) == trackFormSubmit(s, f)

\* hidden: document.hidden at the time of the event
trackVisibilityChange(s, hidden) ==
    LET s1 == IF s.isVisible
              THEN [s EXCEPT !.totalVisibleTime = @ + (s.now - s.lastVisibilityChange)]
              ELSE s
        s2 == [s1 EXCEPT !.isVisible = ~hidden, !.lastVisibilityChange = s.now]
    IN  sendEvent(s2, "visibility",
            [hidden |-> hidden, visibleTime |-> s2.totalVisibleTime,
             timeOnPage |-> s.now - s.pageEntryTime])

\* (mutation) the flush leaves the form records alone
trackPageExit_NoCheck(s) ==
    LET s1 == IF s.isVisible
              THEN [s EXCEPT !.totalVisibleTime = @ + (s.now - s.lastVisibilityChange)]
              ELSE s
    IN  sendEvent(s1, "pageexit",
            [timeOnPage |-> s.now - s.pageEntryTime,
             activeTime |-> s1.totalVisibleTime,
             maxScrollDepth |-> s1.maxScrollDepth,
             clickCount |-> s1.clickCount,
             interactionCount |-> s1.interactionCount,
             rageClickCount |-> s1.rageClickCount,
             deadClickCount |-> s1.deadClickCount])

trackPageExit(s) ==
    LET s1 == IF s.isVisible
              THEN [s EXCEPT !.totalVisibleTime = @ + (s.now - s.lastVisibilityChange)]
              ELSE s
        s2 == CheckEach(s1, s1.activeForms, 1, "page_exit")
    IN  sendEvent(s2, "pageexit",
            [timeOnPage |-> s.now - s.pageEntryTime,
             activeTime |-> s2.totalVisibleTime,
             maxScrollDepth |-> s2.maxScrollDepth,
             clickCount |-> s2.clickCount,
             interactionCount |-> s2.interactionCount,
             rageClickCount |-> s2.rageClickCount,
             deadClickCount |-> s2.deadClickCount])

trackNavigation(s, type) ==
    sendEvent(s, "navigation",
        [type |-> type, timeOnPreviousPage |-> s.now - s.pageEntryTime])

\* (mutation) the reset also restarts the event numbering
resetCounters_AndIndex(s) ==
    [s EXCEPT !.pageEntryTime = s.now,
              !.maxScrollDepth = 0,
              !.lastScrollDepthSent = 0,
              !.clickCount = 0,
              !.totalVisibleTime = 0,
              !.lastVisibilityChange = s.now,
              !.isVisible = TRUE,
              !.recentClicks = <<>>,
              !.mouseMovements = <<>>,
              !.deadClickCount = 0,
              !.rageClickCount = 0,
              !.interactionCount = 0]

\* the assignments of lines 785-795
resetCounters(s) ==
    [s EXCEPT !.pageEntryTime = s.now,
              !.maxScrollDepth = 0,
              !.lastScrollDepthSent = 0,
              !.clickCount = 0,
              !.totalVisibleTime = 0,
              !.lastVisibilityChange = s.now,
              !.isVisible = TRUE,
              !.recentClicks = <<>>,
              !.mouseMovements = <<>>,
              !.deadClickCount = 0,
              !.rageClickCount = 0]

resetPageState(s) ==
    LET s1 == resetCounters(s)
        s2 == CheckEach(s1, s1.activeForms, 1, "page_navigation")
    IN  [s2 EXCEPT !.activeForms = <<>>]

\* the wrapper installed over history.pushState; hasUrl: the url argument
\* is given
pushState(s, hasUrl) ==
    LET s1 == IF hasUrl THEN trackNavigation(s, "pushState") ELSE s
        s2 == trackPageExit(s1)
        s3 == resetPageState(s2)
    IN  [s3 EXCEPT !.timers = Append(@, [kind |-> "pageview", form |-> 0,
                                         delay |-> 0])]

replaceState(s, hasUrl) ==
    IF hasUrl THEN trackNavigation(s, "replaceState") ELSE s

popstate(s) ==
    trackPageView(resetPageState(trackPageExit(trackNavigation(s, "popstate"))))

keydown(s, key) ==
    IF key = "Escape"
    THEN [s EXCEPT !.timers = Append(@, [kind |-> "escape", form |-> 0,
                                         delay |-> DEFER_DELAY])]
    ELSE s

\* the callback of lines 772-779
escapeTimer(s) == CheckEach(s, s.activeForms, 1, "escape_pressed")

reportFormAbandonment(s, f, reason) ==
    checkFormAbandonment(s, f, IF reason = NoValue THEN "manual" ELSE reason)

timerCallback(s, t) ==
    CASE t.kind = "cancel" -> cancelTimer(s, t.form)
      [] t.kind = "escape" -> escapeTimer(s)
      [] t.kind = "pageview" -> trackPageView(s)
      [] t.kind = "scroll" -> scrollTimer(s)

\* The script runs on a page load: lines 17-36 set the closure variables,
\* then init() emits the pageview.  The storages survive, the timers and the
\* document of the previous page do not; d is the new document.
load(s, d) ==
    LET g == getOrCreateSessionId(s)
        s1 == [g EXCEPT !.sessionId = g.ret,
                        !.pageEntryTime = s.now,
                        !.maxScrollDepth = 0,
                        !.clickCount = 0,
                        !.isVisible = TRUE,
                        !.totalVisibleTime = 0,
                        !.lastVisibilityChange = s.now,
                        !.lastScrollDepthSent = 0,
                        !.interactionCount = 0,
                        !.recentClicks = <<>>,
                        !.mouseMovements = <<>>,
                        !.lastMousePosition = [x |-> 0, y |-> 0],
                        !.deadClickCount = 0,
                        !.rageClickCount = 0,
                        !.activeForms = <<>>,
                        !.timers = <<>>,
                        !.dom = d,
                        !.out = <<>>]
    IN  trackPageView(s1)

\* ---------------------------------------------------------------------
\* Screenshot capture
\* ---------------------------------------------------------------------
\* s.shot is the state of lines 816-818 and of the promises in progress:
\*   loaded, loading (html2canvasLoaded, html2canvasLoading),
\*   pending (pendingScreenshotCallbacks, as capture numbers),
\*   scripts (script elements appended whose load or error event is still
\*   to come),
\*   caps (the captures requested, in order: [requestId, phase, hid, prior,
\*   calls, failed], hid and prior being the capture's hiddenElements entry
\*   for the sensitive element of the page, calls the number of times its
\*   loader callback ran, failed whether it was given an error),
\*   visibility (style.visibility of the sensitive element),
\*   posted (the messages posted to the parent frame: [requestId, success]).
NoShots ==
    [loaded |-> FALSE, loading |-> FALSE, pending |-> <<>>, scripts |-> 0,
     caps |-> <<>>, visibility |-> "", posted |-> <<>>]

\* window.parent.postMessage of lines 987-992 and 995-1000
postResponse(s, c, success) ==
    [s EXCEPT !.shot.posted = Append(@, [requestId |-> s.shot.caps[c].requestId,
                                         success |-> success]),
              !.shot.caps[c].phase = "responded"]

\* the function captureScreenshot hands to loadHtml2Canvas (lines 852-911),
\* up to the call of html2canvas; error: it is called with an Error, the
\* promise is rejected and the catch of line 994 posts the failure
loaderCallback(s, c, error) ==
    LET s1 == [s EXCEPT !.shot.caps[c].calls = @ + 1]
    IN  IF error
        THEN postResponse([s1 EXCEPT !.shot.caps[c].failed = TRUE], c, FALSE)
        ELSE IF s1.shot.visibility # "hidden"
             THEN [s1 EXCEPT !.shot.caps[c].hid = TRUE,
                             !.shot.caps[c].prior = s1.shot.visibility,
                             !.shot.visibility = "hidden",
                             !.shot.caps[c].phase = "rendering"]
             ELSE [s1 EXCEPT !.shot.caps[c].phase = "rendering"]

\* (mutation) a load is started whether or not one is in flight
loadHtml2Canvas_Eager(s, c) ==
    IF s.shot.loaded THEN loaderCallback(s, c, FALSE)
    ELSE [s EXCEPT !.shot.pending = Append(@, c),
                   !.shot.loading = TRUE,
                   !.shot.scripts = @ + 1]

loadHtml2Canvas(s, c) ==
    IF s.shot.loaded THEN loaderCallback(s, c, FALSE)
    ELSE LET s1 == [s EXCEPT !.shot.pending = Append(@, c)]
         IN  IF s1.shot.loading THEN s1
             ELSE [s1 EXCEPT !.shot.loading = TRUE, !.shot.scripts = @ + 1]

RECURSIVE RunCallbacks(_, _, _, _)
\* pendingScreenshotCallbacks.forEach of lines 838 and 843
RunCallbacks(s, q, i, error) ==
    IF i > Len(q) THEN s
    ELSE RunCallbacks(loaderCallback(s, q[i], error), q, i + 1, error)

\* script.onload
onload(s) ==
    LET s1 == [s EXCEPT !.shot.loaded = TRUE, !.shot.loading = FALSE,
                        !.shot.scripts = @ - 1]
        s2 == RunCallbacks(s1, s1.shot.pending, 1, FALSE)
    IN  [s2 EXCEPT !.shot.pending = <<>>]

\* script.onerror
onerror(s) ==
    LET s1 == [s EXCEPT !.shot.loading = FALSE, !.shot.scripts = @ - 1]
        s2 == RunCallbacks(s1, s1.shot.pending, 1, TRUE)
    IN  [s2 EXCEPT !.shot.pending = <<>>]

\* the promise of html2canvas settles for capture c (lines 888-909): the
\* hidden elements are restored; fulfilled (ok), sendScreenshot posts the
\* image, reading the visitor id; rejected, or toDataURL raising, the catch
\* of line 994 posts the failure
captureSettled(s, c, ok) ==
    LET cap == s.shot.caps[c]
        s1 == IF cap.hid THEN [s EXCEPT !.shot.visibility = cap.prior] ELSE s
    IN  IF ok
        THEN [getVisitorId(s1) EXCEPT !.shot.caps[c].phase = "uploading", !.ret = FALSE]
        ELSE postResponse(s1, c, FALSE)

\* what fetch and res.json() of lines 925-931 can come to
UploadOutcomes == {"stored", "http_error", "not_json", "network_error"}

\* the promise of sendScreenshot settles: it is fulfilled whenever the
\* server answered with a JSON body, whatever the status of the answer
uploadFulfilled(outcome) == outcome \in {"stored", "http_error"}

uploadSettled(s, c, outcome) == postResponse(s, c, uploadFulfilled(outcome))

\* the message listener of lines 974-1003; msg: [origin, type, requestId]
messageListener(s, msg) ==
    IF msg.type = "BI_SCREENSHOT_REQUEST"
    THEN LET c == Len(s.shot.caps) + 1
             s1 == [s EXCEPT !.shot.caps =
                       Append(@, [requestId |-> msg.requestId, phase |-> "waiting",
                                  hid |-> FALSE, prior |-> "", calls |-> 0,
                                  failed |-> FALSE])]
         IN  loadHtml2Canvas(s1, c)
    ELSE s

\* ---------------------------------------------------------------------
\* History of the emitted events
\* ---------------------------------------------------------------------
FieldNames(form) == {form.fields[i].name : i \in DOMAIN form.fields}

NewLifecycle(form) ==
    [abandons |-> 0, skips |-> [n \in FieldNames(form) |-> 0], submitted |-> FALSE]

NoHistory(d) ==
    [id \in {d[i].id : i \in DOMAIN d} |->
        NewLifecycle(d[CHOOSE i \in DOMAIN d : d[i].id = id])]

Bump(n) == Min(n + 1, HistCap)

\* formHist after the envelope e: form_start opens a lifecycle of its form,
\* form_abandonment and form_field_skip are counted in the open lifecycle,
\* the form_submit of a tracked form marks it submitted.
Record1(h, e) ==
    LET id == e.eventData.info.formId
    IN  CASE e.eventType = "form_start" ->
               [h EXCEPT ![id] = [abandons |-> 0,
                                  skips |-> [n \in DOMAIN h[id].skips |-> 0],
                                  submitted |-> FALSE]]
          [] e.eventType = "form_abandonment" ->
               [h EXCEPT ![id].abandons = Bump(@)]
          [] e.eventType = "form_submit" ->
               [h EXCEPT ![id].submitted = @ \/ "timeToComplete" \in DOMAIN e.eventData]
          [] e.eventType = "form_field_skip" ->
               [h EXCEPT ![id].skips[e.eventData.skippedField] = Bump(@)]
          [] OTHER -> h

RECURSIVE RecordAll(_, _, _)
RecordAll(h, out, i) ==
    IF i > Len(out) THEN h ELSE RecordAll(Record1(h, out[i]), out, i + 1)

\* the depths of the scroll_milestone envelopes of out, in order
MilestonesOf(out) ==
    LET IsMilestone(e) == e.eventType = "scroll_milestone"
        ms == SelectSeq(out, IsMilestone)
    IN  [i \in DOMAIN ms |-> ms[i].eventData.depth]

HasType(out, type) == \E i \in DOMAIN out : out[i].eventType = type

PageChange == {"load", "pushState", "popstate"}

\* ---------------------------------------------------------------------
\* From state records to the variables
\* ---------------------------------------------------------------------
Commit(s, inp) ==
    /\ now' = s.now
    /\ sessionStore' = s.sessionStore
    /\ visitorStore' = s.visitorStore
    /\ idsMinted' = s.idsMinted
    /\ dom' = s.dom
    /\ timers' = s.timers
    /\ sessionId' = s.sessionId
    /\ pageEntryTime' = s.pageEntryTime
    /\ maxScrollDepth' = s.maxScrollDepth
    /\ clickCount' = s.clickCount
    /\ isVisible' = s.isVisible
    /\ totalVisibleTime' = s.totalVisibleTime
    /\ lastVisibilityChange' = s.lastVisibilityChange
    /\ lastScrollDepthSent' = s.lastScrollDepthSent
    /\ interactionCount' = s.interactionCount
    /\ recentClicks' = s.recentClicks
    /\ mouseMovements' = s.mouseMovements
    /\ lastMousePosition' = s.lastMousePosition
    /\ deadClickCount' = s.deadClickCount
    /\ rageClickCount' = s.rageClickCount
    /\ activeForms' = s.activeForms
    /\ sent' = s.out
    /\ lastInput' = inp
    /\ pageLoad' = IF inp.kind = "load" THEN pageLoad + 1 ELSE pageLoad
    /\ lastIndex' = IF s.out # <<>> THEN s.out[Len(s.out)].interactionIndex
                    ELSE IF inp.kind = "load" THEN 0 ELSE lastIndex
    /\ formHist' = RecordAll(IF inp.kind = "load" THEN NoHistory(s.dom) ELSE formHist,
                             s.out, 1)
    /\ clickHist' = IF inp.kind = "click"
                    THEN Append(clickHist,
                             [time |-> s.now, x |-> inp.ev.clientX,
                              y |-> inp.ev.clientY,
                              rage |-> HasType(s.out, "rage_click"),
                              dead |-> HasType(s.out, "dead_click")])
                    ELSE IF inp.kind \in PageChange THEN <<>> ELSE clickHist
    /\ scrollHist' = IF inp.kind = "scroll"
                     THEN Append(scrollHist,
                              [depth |-> inp.depth, milestones |-> MilestonesOf(s.out)])
                     ELSE IF inp.kind \in PageChange THEN <<>> ELSE scrollHist
    /\ pointer' = pointer
    /\ net' = s.net
    /\ wire' = s.wire
    /\ shot' = s.shot

\* the browser before the first page load
Blank ==
    [now |-> 0, sessionStore |-> NoSession, visitorStore |-> NoId,
     idsMinted |-> 0, dom |-> <<>>, timers |-> <<>>,
     sessionId |-> NoId, pageEntryTime |-> 0,
     maxScrollDepth |-> 0, clickCount |-> 0,
     isVisible |-> TRUE, totalVisibleTime |-> 0,
     lastVisibilityChange |-> 0, lastScrollDepthSent |-> 0,
     interactionCount |-> 0, recentClicks |-> <<>>,
     mouseMovements |-> <<>>, lastMousePosition |-> [x |-> 0, y |-> 0],
     deadClickCount |-> 0, rageClickCount |-> 0,
     activeForms |-> <<>>, out |-> <<>>, ret |-> FALSE, thrown |-> FALSE,
     net |-> [beacon |-> TRUE, up |-> TRUE], wire |-> <<>>, shot |-> NoShots]

\* the state once the script has run on the first load of the document d
\* in the browser b
InitOn(b, d, ptr) ==
    LET s == load(b, d)
    IN  /\ now = s.now
        /\ sessionStore = s.sessionStore
        /\ visitorStore = s.visitorStore
        /\ idsMinted = s.idsMinted
        /\ dom = s.dom
        /\ timers = s.timers
        /\ sessionId = s.sessionId
        /\ pageEntryTime = s.pageEntryTime
        /\ maxScrollDepth = s.maxScrollDepth
        /\ clickCount = s.clickCount
        /\ isVisible = s.isVisible
        /\ totalVisibleTime = s.totalVisibleTime
        /\ lastVisibilityChange = s.lastVisibilityChange
        /\ lastScrollDepthSent = s.lastScrollDepthSent
        /\ interactionCount = s.interactionCount
        /\ recentClicks = s.recentClicks
        /\ mouseMovements = s.mouseMovements
        /\ lastMousePosition = s.lastMousePosition
        /\ deadClickCount = s.deadClickCount
        /\ rageClickCount = s.rageClickCount
        /\ activeForms = s.activeForms
        /\ sent = s.out
        /\ lastInput = [kind |-> "load"]
        /\ pageLoad = 1
        /\ lastIndex = s.interactionCount
        /\ formHist = NoHistory(d)
        /\ clickHist = <<>>
        /\ scrollHist = <<>>
        /\ pointer = ptr
        /\ net = s.net
        /\ wire = s.wire
        /\ shot = s.shot

InitWith(d, ptr) == InitOn(Blank, d, ptr)

\* ---------------------------------------------------------------------
\* Actions: one per handler, dt being the time since the previous step
\* ---------------------------------------------------------------------
NoPointer == [gap |-> 0, points |-> {}]

PlainElement ==
    [tag |-> "div", id |-> "", classes |-> <<>>, styleCursor |-> "",
     computedCursor |-> "auto", role |-> "", onclick |-> FALSE,
     insideInteractive |-> FALSE, text |-> "", type |-> "",
     dismiss |-> FALSE, nearForm |-> 0, node |-> "html", numericValue |-> FALSE]

TrackClick(dt, ev) ==
    Commit(trackClick(At(Cur, dt), ev), [kind |-> "click", ev |-> ev])

TrackMouseMove(dt, ev) ==
    Commit(trackMouseMove(At(Cur, dt), ev), [kind |-> "mousemove", ev |-> ev])

\* BehavioralInsights.getVisitorId()
GetVisitorId ==
    LET r == getVisitorId(Cur)
    IN  Commit(r, [kind |-> "visitor", id |-> r.ret])

\* visibilitychange: the document becomes hidden or visible again
VisibilityChange(dt, hidden) ==
    Commit(trackVisibilityChange(At(Cur, dt), hidden),
           [kind |-> "visibility", hidden |-> hidden])

\* beforeunload or pagehide, dt after the previous event
PageExitAfter(dt) ==
    Commit(trackPageExit(At(Cur, dt)), [kind |-> "pageexit"])

\* a message event on the window
Message(msg) ==
    Commit(messageListener(Cur, msg),
           [kind |-> "message", origin |-> msg.origin, type |-> msg.type])

\* the load event of the script element of html2canvas
ScriptLoad ==
    /\ shot.scripts > 0
    /\ Commit(onload(Cur), [kind |-> "scriptload"])

\* the error event of the script element of html2canvas
ScriptError ==
    /\ shot.scripts > 0
    /\ Commit(onerror(Cur), [kind |-> "scripterror"])

CaptureSettles(c, ok) ==
    /\ c \in DOMAIN shot.caps
    /\ shot.caps[c].phase = "rendering"
    /\ Commit(captureSettled(Cur, c, ok), [kind |-> "rendered", capture |-> c, ok |-> ok])

UploadSettles(c, outcome) ==
    /\ c \in DOMAIN shot.caps
    /\ shot.caps[c].phase = "uploading"
    /\ Commit(uploadSettled(Cur, c, outcome),
              [kind |-> "uploaded", capture |-> c, outcome |-> outcome])

GetFrustrationStats ==
    LET r == getFrustrationStats(Cur)
    IN  Commit(r, [kind |-> "stats", ret |-> r.ret])

Scroll(dt, pos) ==
    Commit(scrollListener(At(Cur, dt), pos),
           [kind |-> "scroll", depth |-> getScrollDepth(pos)])

Reload(dt, d) ==
    Commit(load(At(Cur, dt), d), [kind |-> "load"])

\* ---------------------------------------------------------------------
\* Rage clicks: clicks on one plain element at varying places and times
\* ---------------------------------------------------------------------
ClickGaps == {100, 500}

ClickXs == {100, 150}

ClickYs == {100, 150}

InitRage == InitWith(<<>>, NoPointer)

NextRage ==
    \E dt \in ClickGaps, x \in ClickXs, y \in ClickYs :
        /\ Len(clickHist) < MaxClicks
        /\ TrackClick(dt, [clientX |-> x, clientY |-> y, target |-> PlainElement])

SpecRage == InitRage /\ [][NextRage]_vars

\* The clicks of clickHist[1..n] that the buffer should hold when click n is
\* examined: those after the last earlier rage_click that are less than
\* 500ms old at click n.
LastRageBefore(n) ==
    LET R == {j \in 1..(n - 1) : clickHist[j].rage}
    IN  IF R = {} THEN 0 ELSE CHOOSE j \in R : \A k \in R : k <= j

Buffered(n) ==
    {j \in (LastRageBefore(n) + 1)..n :
        clickHist[n].time - clickHist[j].time < 500}

Near(a, b) ==
    /\ Abs(clickHist[a].x - clickHist[b].x) < 50
    /\ Abs(clickHist[a].y - clickHist[b].y) < 50

Oldest(B) == CHOOSE j \in B : \A k \in B : j <= k

RageCount(out) == Cardinality({i \in DOMAIN out : out[i].eventType = "rage_click"})

\* C2 (as stated): whenever three successive clicks fall within a 500ms
\* window and each lies within 50px of the first of them, whatever clicks
\* came before, exactly one rage_click was emitted for the three.
C2_AnyClusterFires ==
    \A i \in DOMAIN clickHist :
        (/\ i + 2 <= Len(clickHist)
         /\ clickHist[i + 2].time - clickHist[i].time < 500
         /\ Near(i + 1, i) /\ Near(i + 2, i))
        => Cardinality({j \in i..(i + 2) : clickHist[j].rage}) = 1

\* C2 (amended): a click emits rage_click exactly when the clicks made since
\* the last rage_click or page reset that are less than 500ms old, the new
\* click included, are at least 3 and all lie less than 50px on each axis
\* from the oldest of them; then exactly one rage_click is emitted and the
\* click buffer is empty right after.
C2_RageOnBufferedCluster ==
    /\ \A n \in DOMAIN clickHist :
          clickHist[n].rage <=>
              /\ Cardinality(Buffered(n)) >= 3
              /\ \A j \in Buffered(n) : Near(j, Oldest(Buffered(n)))
    /\ lastInput.kind = "click" =>
          /\ RageCount(sent) <= 1
          /\ HasType(sent, "rage_click") => recentClicks = <<>>
          /\ ~HasType(sent, "rage_click") =>
                {recentClicks[i].time : i \in DOMAIN recentClicks}
                    = {clickHist[j].time : j \in Buffered(Len(clickHist))}

\* C2 witness: a second cluster, counted from an emptied buffer, fires.
C2_Witness ==
    /\ lastInput.kind = "click"
    /\ HasType(sent, "rage_click")
    /\ Len(clickHist) >= 4
    /\ recentClicks = <<>>
    /\ \E j \in DOMAIN clickHist : ~Near(j, Len(clickHist))

\* ---------------------------------------------------------------------
\* Dead clicks: clicks at one place, 100ms apart, on varied elements
\* ---------------------------------------------------------------------
\* how an element can look clickable
Looks ==
    {[tag |-> "div", classes |-> <<>>, styleCursor |-> "", computedCursor |-> "auto"],
     [tag |-> "div", classes |-> <<>>, styleCursor |-> "pointer", computedCursor |-> "pointer"],
     [tag |-> "div", classes |-> <<>>, styleCursor |-> "", computedCursor |-> "pointer"],
     [tag |-> "img", classes |-> <<>>, styleCursor |-> "", computedCursor |-> "auto"],
     [tag |-> "div", classes |-> <<"btn">>, styleCursor |-> "", computedCursor |-> "auto"],
     [tag |-> "div", classes |-> <<"card", "button">>, styleCursor |-> "", computedCursor |-> "auto"],
     [tag |-> "div", classes |-> <<"link">>, styleCursor |-> "", computedCursor |-> "auto"],
     [tag |-> "div", classes |-> <<"clickable">>, styleCursor |-> "", computedCursor |-> "auto"]}

\* what can make an element interactive
Wirings ==
    {[tag |-> "", role |-> "", onclick |-> FALSE, insideInteractive |-> FALSE],
     [tag |-> "a", role |-> "", onclick |-> FALSE, insideInteractive |-> FALSE],
     [tag |-> "button", role |-> "", onclick |-> FALSE, insideInteractive |-> FALSE],
     [tag |-> "input", role |-> "", onclick |-> FALSE, insideInteractive |-> FALSE],
     [tag |-> "select", role |-> "", onclick |-> FALSE, insideInteractive |-> FALSE],
     [tag |-> "textarea", role |-> "", onclick |-> FALSE, insideInteractive |-> FALSE],
     [tag |-> "label", role |-> "", onclick |-> FALSE, insideInteractive |-> FALSE],
     [tag |-> "", role |-> "button", onclick |-> FALSE, insideInteractive |-> FALSE],
     [tag |-> "", role |-> "", onclick |-> TRUE, insideInteractive |-> FALSE],
     [tag |-> "", role |-> "", onclick |-> FALSE, insideInteractive |-> TRUE]}

DeadTargets ==
    {[PlainElement EXCEPT !.tag = IF w.tag # "" THEN w.tag ELSE l.tag,
                          !.classes = l.classes,
                          !.styleCursor = l.styleCursor,
                          !.computedCursor = l.computedCursor,
                          !.role = w.role, !.onclick = w.onclick,
                          !.insideInteractive = w.insideInteractive] :
        <<l, w>> \in {p \in Looks \X Wirings : p[1].tag = "div" \/ p[2].tag = ""}}

InitDead == InitWith(<<>>, NoPointer)

NextDead ==
    \E el \in DeadTargets :
        /\ Len(clickHist) < MaxDeadClicks
        /\ TrackClick(100, [clientX |-> 100, clientY |-> 100, target |-> el])

SpecDead == InitDead /\ [][NextDead]_vars

\* The predicates of the documentation, on the element properties.
LooksClickableDoc(el) ==
    \/ el.styleCursor = "pointer" \/ el.computedCursor = "pointer"
    \/ \E c \in {"btn", "button", "link", "clickable"} : Contains(el.classes, c)
    \/ el.tag = "img"

StructurallyClickable(el) ==
    \/ el.tag \in {"a", "button", "input", "select", "textarea"}
    \/ el.role = "button"
    \/ el.insideInteractive
    \/ el.onclick

\* C4: on a click on which no rage_click fires, dead_click is emitted if and
\* only if the target looks clickable and is not structurally clickable.
C4_DeadIffLooksNotStructural ==
    (lastInput.kind = "click" /\ ~HasType(sent, "rage_click")) =>
        (HasType(sent, "dead_click") <=>
            (LooksClickableDoc(lastInput.ev.target)
             /\ ~StructurallyClickable(lastInput.ev.target)))

\* C5: dead_click is never emitted for a click whose target is structurally
\* clickable, whatever its cursor style, class names or tag.
C5_NoDeadClickOnStructural ==
    (lastInput.kind = "click" /\ StructurallyClickable(lastInput.ev.target)) =>
        ~HasType(sent, "dead_click")

\* C5 witness: a click, examined for a dead click, on an element that looks
\* clickable by its class only and is interactive through an ancestor only.
C5_Witness ==
    /\ lastInput.kind = "click"
    /\ ~HasType(sent, "rage_click")
    /\ lastInput.ev.target.insideInteractive
    /\ lastInput.ev.target.tag = "div"
    /\ lastInput.ev.target.computedCursor = "auto"
    /\ Contains(lastInput.ev.target.classes, "btn")
    /\ ~HasType(sent, "dead_click")
    /\ HasType(sent, "click")

\* ---------------------------------------------------------------------
\* Sessions: clicks and reloads a quarter or half an hour apart
\* ---------------------------------------------------------------------
SessionGaps == {900000, 1800000}

InitSession == InitWith(<<>>, NoPointer)

SessionClick ==
    \E dt \in SessionGaps :
        /\ clickCount < MaxClicksPerLoad
        /\ TrackClick(dt, [clientX |-> 100, clientY |-> 100, target |-> PlainElement])

SessionReload ==
    \E dt \in SessionGaps :
        /\ pageLoad < MaxLoads
        /\ Reload(dt, <<>>)

NextSession == SessionClick \/ SessionReload

SpecSession == InitSession /\ [][NextSession]_vars

\* the time of the user's last interaction with the page: the last click,
\* or the page load when nothing was clicked since
LastInteraction ==
    IF clickHist # <<>> THEN clickHist[Len(clickHist)].time ELSE pageEntryTime

\* C7: a reload less than 30 minutes after the last interaction keeps the
\* session id; a reload 30 minutes or more after it mints a new id and
\* persists it.
C7_ReloadWithinTimeoutKeepsId ==
    [][lastInput'.kind = "load" =>
          /\ (now' - LastInteraction < SESSION_TIMEOUT => sessionId' = sessionId)
          /\ (now' - LastInteraction >= SESSION_TIMEOUT =>
                 /\ sessionId' # sessionId
                 /\ sessionStore'.id = sessionId')]_vars

\* C8: within a page load every interaction renews the stored lastActivity,
\* and an envelope emitted after 30 minutes without interaction carries a
\* newly minted session id.
C8_SessionRenewedAndExpired ==
    [][lastInput'.kind = "click" =>
          /\ sessionStore'.lastActivity = now'
          /\ (now' - LastInteraction >= SESSION_TIMEOUT =>
                 \A i \in DOMAIN sent' : sent'[i].sessionId # sessionId)]_vars

\* ---------------------------------------------------------------------
\* Pointer motion: samples at a steady rate between two of three collinear points
\* ---------------------------------------------------------------------
MoveGaps == {25, 50, 100, 120, 150}

MousePoints ==
    {[clientX |-> 0, clientY |-> 0], [clientX |-> 3, clientY |-> 4],
     [clientX |-> 300, clientY |-> 400]}

PointPairs == {P \in SUBSET MousePoints : Cardinality(P) = 2}

InitMouse ==
    \E gap \in MoveGaps, P \in PointPairs :
        InitWith(<<>>, [gap |-> gap, points |-> P])

NextMouse ==
    \E p \in pointer.points :
        /\ now < MaxMoves * (IF pointer.gap < MOVE_THROTTLE THEN MOVE_THROTTLE
                             ELSE pointer.gap)
        /\ TrackMouseMove(pointer.gap, p)

SpecMouse == InitMouse /\ [][NextMouse]_vars

\* the samples a mousemove leaves to be examined: the buffer and the new
\* sample, less than a second old
Examined(buffer, t, ev) ==
    LET Recent(m) == t - m.time < 1000
    IN  SelectSeq(Append(buffer, [time |-> t, x |-> ev.clientX, y |-> ev.clientY]),
                  Recent)

ThrashCount(out) == Cardinality({i \in DOMAIN out : out[i].eventType = "mouse_thrash"})

\* C6: every mouse_thrash is computed from at least 10 buffered samples with
\* a path longer than 500px and at least 4 direction reversals, and none is
\* emitted when one of the three conditions fails.
C6_ThrashOnlyAboveThresholds ==
    [][(lastInput'.kind = "mousemove" /\ HasType(sent', "mouse_thrash")) =>
          LET B == Examined(mouseMovements, now', lastInput'.ev)
              e == sent'[1].eventData
          IN  /\ ThrashCount(sent') = 1
              /\ e.movementCount = Len(B) /\ Len(B) >= 10
              /\ e.totalDistance = PathStats(B, Len(B)).dist
              /\ e.totalDistance > 500
              /\ e.directionChanges = PathStats(B, Len(B)).changes
              /\ e.directionChanges >= 4]_vars

\* C6 witness: a mouse_thrash emitted on the tenth sample.
C6_Witness ==
    /\ lastInput.kind = "mousemove"
    /\ HasType(sent, "mouse_thrash")
    /\ sent[1].eventData.movementCount = 10
    /\ mouseMovements = <<>>

\* C6: the buffers that stay silent with ten samples, one per failing
\* condition (short path, few reversals).
C6_WitnessShortPath ==
    /\ Len(mouseMovements) >= 10
    /\ PathStats(mouseMovements, Len(mouseMovements)).dist <= 500
    /\ PathStats(mouseMovements, Len(mouseMovements)).changes >= 4

C6_WitnessFewReversals ==
    /\ Len(mouseMovements) >= 10
    /\ PathStats(mouseMovements, Len(mouseMovements)).dist > 500
    /\ PathStats(mouseMovements, Len(mouseMovements)).changes < 4

\* the time of the last accepted sample of a run of mousemove events, -1
\* when there is none: that of the newest buffered sample, or of the step
\* itself when it emitted mouse_thrash and emptied the buffer
LastAccepted ==
    IF mouseMovements # <<>> THEN mouseMovements[Len(mouseMovements)].time
    ELSE IF HasType(sent, "mouse_thrash") THEN now
    ELSE -1

\* C25: a mousemove that arrives less than 50ms after the last accepted
\* sample is dropped without changing the buffer, the last pointer
\* position or anything sent, so that successively accepted samples are at
\* least 50ms apart, also across a mouse_thrash emission.
C25_OneSamplePer50ms ==
    [][(/\ lastInput'.kind = "mousemove"
        /\ LastAccepted # -1
        /\ now' - LastAccepted < 50)
          => /\ mouseMovements' = mouseMovements
             /\ lastMousePosition' = lastMousePosition
             /\ sent' = <<>>]_vars

\* the buffer as line 597 leaves it: the old buffer and the new sample,
\* less than two seconds old
Pruned(buffer, t, ev) ==
    LET Recent(m) == t - m.time < 2000
    IN  SelectSeq(Append(buffer, [time |-> t, x |-> ev.clientX, y |-> ev.clientY]),
                  Recent)

\* C26: on an accepted sample, when the buffer pruned to the last 2000ms
\* holds at least 10 samples and the path over the most recent 1000ms is
\* longer than 500px with at least 4 direction reversals, mouse_thrash is
\* emitted and the buffer is empty afterwards.
C26_ThrashWhenBufferHoldsTen ==
    [][(/\ lastInput'.kind = "mousemove"
        /\ (LastAccepted = -1 \/ now' - LastAccepted >= 50)
        /\ Len(Pruned(mouseMovements, now', lastInput'.ev)) >= 10
        /\ LET B == Examined(mouseMovements, now', lastInput'.ev)
           IN  /\ PathStats(B, Len(B)).dist > 500
               /\ PathStats(B, Len(B)).changes >= 4)
          => /\ HasType(sent', "mouse_thrash")
             /\ mouseMovements' = <<>>]_vars

\* ---------------------------------------------------------------------
\* Host-page events on forms
\* ---------------------------------------------------------------------
Shown(f) == dom[f].attached /\ dom[f].rendered

Focus(f, i) ==
    /\ Shown(f)
    /\ Commit(trackFormFocus(Cur, f, i), [kind |-> "focus", form |-> f, field |-> i])

\* focusin on field i of form f, dt after the previous event
FocusAfter(dt, f, i) ==
    /\ Shown(f)
    /\ Commit(trackFormFocus(At(Cur, dt), f, i),
              [kind |-> "focus", form |-> f, field |-> i])

\* the user or a script of the page changes the value of a field
SetValue(f, i, v) ==
    /\ dom[f].attached
    /\ dom[f].fields[i].value # v
    /\ Commit([Cur EXCEPT !.dom[f].fields[i].value = v],
              [kind |-> "input", form |-> f, field |-> i])

Submit(f) ==
    /\ Shown(f)
    /\ Commit(trackFormSubmitEvent(Cur, f), [kind |-> "submit", form |-> f])

\* the form element itself is taken out of the document
RemoveForm(f) ==
    /\ dom[f].attached
    /\ Commit(formObserver([Cur EXCEPT !.dom[f].attached = FALSE],
                           [isForm |-> TRUE, form |-> f, inner |-> <<>>]),
              [kind |-> "remove", form |-> f])

InContainer(c) ==
    LET All == [i \in DOMAIN dom |-> i]
        Inside(i) == dom[i].container = c /\ dom[i].attached
    IN  SelectSeq(All, Inside)

\* the container c is taken out of the document with the forms below it
RemoveContainer(c) ==
    /\ InContainer(c) # <<>>
    /\ Commit(formObserver(
                  [Cur EXCEPT !.dom = [i \in DOMAIN dom |->
                        IF dom[i].container = c
                        THEN [dom[i] EXCEPT !.attached = FALSE] ELSE dom[i]]],
                  [isForm |-> FALSE, form |-> 0, inner |-> InContainer(c)]),
              [kind |-> "removeContainer", container |-> c])

Reattach(f) ==
    /\ ~dom[f].attached
    /\ Commit([Cur EXCEPT !.dom[f].attached = TRUE], [kind |-> "attach", form |-> f])

SetRendered(f, b) ==
    /\ dom[f].attached
    /\ dom[f].rendered # b
    /\ Commit([Cur EXCEPT !.dom[f].rendered = b], [kind |-> "render", form |-> f])

CancelButton(f) ==
    [PlainElement EXCEPT !.tag = "button", !.text = "cancel", !.nearForm = f]

ClickCancel(f) ==
    /\ Shown(f)
    /\ Len(timers) < MaxTimers
    /\ TrackClick(0, [clientX |-> 100, clientY |-> 100, target |-> CancelButton(f)])

KeyDown(key) ==
    /\ Len(timers) < MaxTimers
    /\ Commit(keydown(Cur, key), [kind |-> "keydown", key |-> key])

\* a pending timer fires: one that no earlier-set timer of the same or a
\* shorter delay is still waiting before
FireTimer(i) ==
    /\ i \in DOMAIN timers
    /\ \A j \in 1..(i - 1) : timers[j].delay > timers[i].delay
    /\ LET Others == [j \in 1..(Len(timers) - 1) |->
                          IF j < i THEN timers[j] ELSE timers[j + 1]]
       IN  Commit(timerCallback([Cur EXCEPT !.timers = Others], timers[i]),
                  [kind |-> "timer", timer |-> timers[i].kind])

\* beforeunload or pagehide
PageExit ==
    Commit(trackPageExit(Cur), [kind |-> "pageexit"])

PushState(hasUrl) ==
    /\ Len(timers) < MaxTimers
    /\ Commit(pushState(Cur, hasUrl), [kind |-> "pushState", hasUrl |-> hasUrl])

ReplaceState(hasUrl) ==
    Commit(replaceState(Cur, hasUrl), [kind |-> "replaceState", hasUrl |-> hasUrl])

PopState ==
    Commit(popstate(Cur), [kind |-> "popstate"])

ReportFormAbandonment(f, reason) ==
    Commit(reportFormAbandonment(Cur, f, reason), [kind |-> "report", form |-> f])

\* ---------------------------------------------------------------------
\* Forms: one form in a modal, every trigger of its abandonment
\* ---------------------------------------------------------------------
Field(name, type, required) ==
    [name |-> name, type |-> type, required |-> required, value |-> ""]

SignupDoc ==
    <<[id |-> "signup", container |-> "modal", attached |-> TRUE, rendered |-> TRUE,
       fixed |-> FALSE,
       fields |-> <<Field("email", "email", TRUE), Field("phone", "tel", TRUE)>>]>>

LoginDoc ==
    <<[id |-> "login", container |-> "panel", attached |-> TRUE, rendered |-> TRUE,
       fixed |-> FALSE,
       fields |-> <<Field("user", "text", FALSE), Field("password", "password", TRUE),
                    Field("otp", "text", TRUE)>>]>>

FormDocs == {SignupDoc, LoginDoc}

FieldValues == {"", "x"}

InitForm == \E d \in FormDocs : InitWith(d, NoPointer)

FormFocus == \E f \in DOMAIN dom : \E i \in DOMAIN dom[f].fields : Focus(f, i)

FormInput ==
    \E f \in DOMAIN dom : \E i \in DOMAIN dom[f].fields : \E v \in FieldValues :
        SetValue(f, i, v)

FormSubmit == \E f \in DOMAIN dom : Submit(f)

FormRemoved == \E f \in DOMAIN dom : RemoveForm(f)

ContainerRemoved1 == \E f \in DOMAIN dom : RemoveContainer(dom[f].container)

FormAttached == \E f \in DOMAIN dom : Reattach(f)

FormRendered == \E f \in DOMAIN dom : \E b \in BOOLEAN : SetRendered(f, b)

FormCancel == \E f \in DOMAIN dom : ClickCancel(f)

FormKey == \E key \in {"Escape", "Enter"} : KeyDown(key)

FormTimer == \E i \in DOMAIN timers : FireTimer(i)

FormPush == \E hasUrl \in BOOLEAN : PushState(hasUrl)

FormReplace == \E hasUrl \in BOOLEAN : ReplaceState(hasUrl)

FormReport ==
    \E f \in DOMAIN dom : \E reason \in {NoValue, "escape_pressed"} :
        ReportFormAbandonment(f, reason)

FormEvents ==
    \/ FormFocus \/ FormInput \/ FormSubmit
    \/ FormRemoved \/ ContainerRemoved1 \/ FormAttached \/ FormRendered
    \/ FormCancel \/ FormKey \/ FormTimer
    \/ PageExit \/ FormPush \/ FormReplace \/ PopState
    \/ FormReport

NextForm == interactionCount < MaxInteractions /\ FormEvents

SpecForm == InitForm /\ [][NextForm]_vars

\* the same events on a page whose modal holds two forms
ModalDoc ==
    <<[id |-> "signup", container |-> "modal", attached |-> TRUE, rendered |-> TRUE,
       fixed |-> FALSE,
       fields |-> <<Field("email", "email", TRUE)>>],
      [id |-> "newsletter", container |-> "modal", attached |-> TRUE, rendered |-> TRUE,
       fixed |-> FALSE,
       fields |-> <<Field("address", "email", FALSE)>>]>>

InitModal == InitWith(ModalDoc, NoPointer)

NextModal == interactionCount < MaxModalEvents /\ FormEvents

SpecModal == InitModal /\ [][NextModal]_vars

IsFormEvent(e, type, id) == e.eventType = type /\ e.eventData.info.formId = id

\* the steps that only run an abandonment check of form records
CheckOnly(inp) ==
    \/ inp.kind \in {"report", "remove", "removeContainer"}
    \/ inp.kind = "timer" /\ inp.timer \in {"cancel", "escape"}

\* C1: in one form lifecycle (from form_start to the destruction of the
\* record) at most one form_abandonment is emitted, under every interleaving
\* of the triggers; a check on a destroyed record emits nothing and changes
\* no state, and no form_field_skip is emitted for the form before a new
\* form_start.
C1_AbandonedAtMostOnce ==
    /\ [](\A id \in DOMAIN formHist : formHist[id].abandons <= 1)
    /\ [][\A f \in DOMAIN dom :
             ~HasForm(activeForms, f) =>
                /\ \A j \in DOMAIN sent' :
                      ~IsFormEvent(sent'[j], "form_abandonment", dom[f].id)
                /\ \A j \in DOMAIN sent' :
                      IsFormEvent(sent'[j], "form_field_skip", dom[f].id) =>
                          \E i \in 1..(j - 1) :
                              IsFormEvent(sent'[i], "form_start", dom[f].id)
                /\ (CheckOnly(lastInput') /\ activeForms = <<>>) =>
                      /\ sent' = <<>>
                      /\ UNCHANGED <<activeForms, interactionCount, recentClicks,
                                     clickCount, sessionId, pageEntryTime>>]_vars

\* C1 witness: the record was abandoned, and a later trigger of the same
\* lifecycle found it destroyed.
C1_Witness ==
    /\ \E id \in DOMAIN formHist : formHist[id].abandons = 1
    /\ activeForms = <<>>
    /\ (CheckOnly(lastInput) \/ lastInput.kind \in {"pageexit", "popstate"})
    /\ ~HasType(sent, "form_abandonment")

\* C3: in one lifecycle form_field_skip is emitted at most once for a
\* (form, field) pair, and only at a focus change that moves past a
\* required, empty, non-sensitive field.
C3_SkipAtMostOncePerField ==
    /\ \A id \in DOMAIN formHist : \A n \in DOMAIN formHist[id].skips :
          formHist[id].skips[n] <= 1
    /\ \A j \in DOMAIN sent :
          sent[j].eventType = "form_field_skip" =>
              /\ lastInput.kind = "focus"
              /\ lastInput.field > 1
              /\ LET skipped == dom[lastInput.form].fields[lastInput.field - 1]
                 IN  /\ skipped.name = sent[j].eventData.skippedField
                     /\ skipped.required
                     /\ skipped.value = ""
                     /\ skipped.type # "password"

\* C9: within a page load the interactionIndex of every envelope is greater
\* than that of every envelope emitted before it, whatever the event types,
\* and a navigation reset never lowers it.
C9_InteractionIndexIncreasing ==
    [][lastInput'.kind # "load" =>
          /\ interactionCount' >= interactionCount
          /\ \A i \in DOMAIN sent' :
                sent'[i].interactionIndex >
                    (IF i = 1 THEN lastIndex ELSE sent'[i - 1].interactionIndex)]_vars

\* C9 witness: envelopes of several types emitted by a navigation reset,
\* numbered after those of the previous page.
C9_Witness ==
    /\ lastInput.kind = "popstate"
    /\ HasType(sent, "navigation")
    /\ HasType(sent, "form_abandonment")
    /\ HasType(sent, "pageexit")
    /\ HasType(sent, "pageview")
    /\ sent[1].interactionIndex > 3
    /\ sent[Len(sent)].interactionIndex = interactionCount

PartiallyFilled(f) == \E i \in DOMAIN dom[f].fields : NotBlank(dom[f].fields[i].value)

Abandonments(out, id) ==
    {j \in DOMAIN out : IsFormEvent(out[j], "form_abandonment", id)}

\* the removal made by the step removes the form f or a node above it
RemovedBy(inp, f) ==
    \/ inp.kind = "remove" /\ inp.form = f
    \/ inp.kind = "removeContainer" /\ inp.container = dom[f].container

RemovalReason(inp) ==
    IF inp.kind = "remove" THEN "form_removed" ELSE "container_removed"

\* C11 (as stated): when a container holding a partially filled form with a
\* live record is removed from the document, exactly one form_abandonment is
\* emitted for the form and its reason is form_removed.
C11_ContainerRemovalSaysFormRemoved ==
    [][\A f \in DOMAIN dom :
          (/\ lastInput'.kind = "removeContainer"
           /\ RemovedBy(lastInput', f) /\ dom[f].attached
           /\ HasForm(activeForms, f) /\ PartiallyFilled(f))
          => /\ Cardinality(Abandonments(sent', dom[f].id)) = 1
             /\ \A j \in Abandonments(sent', dom[f].id) :
                   sent'[j].eventData.reason = "form_removed"]_vars

\* C11 (amended): when a node holding a partially filled form with a live
\* record is removed from the document, exactly one form_abandonment is
\* emitted for the form and the record is destroyed; the reason is
\* container_removed when the node is a container above the form and
\* form_removed when the node is the form element itself.
C11_RemovalAbandonsOnceWithNodeReason ==
    [][\A f \in DOMAIN dom :
          (/\ RemovedBy(lastInput', f) /\ dom[f].attached
           /\ HasForm(activeForms, f) /\ PartiallyFilled(f))
          => /\ Cardinality(Abandonments(sent', dom[f].id)) = 1
             /\ \A j \in Abandonments(sent', dom[f].id) :
                   sent'[j].eventData.reason = RemovalReason(lastInput')
             /\ ~HasForm(activeForms', f)]_vars

\* C11 witness: a modal was removed and the abandonment of its form was
\* emitted with the reason container_removed.
C11_Witness ==
    /\ lastInput.kind = "removeContainer"
    /\ \E f \in DOMAIN dom :
          /\ PartiallyFilled(f)
          /\ \E j \in Abandonments(sent, dom[f].id) :
                sent[j].eventData.reason = "container_removed"

\* the positions in out of the envelopes of one type
Positions(out, type) == {j \in DOMAIN out : out[j].eventType = type}

\* C12: every call of a wrapped history entry point with a url, push and
\* replace alike, emits navigation, then runs the page-exit flush (the
\* abandonment checks, then pageexit with the counters as they were before
\* the reset), then resets the per-page state, then emits pageview (at once
\* or by a timer already set).
C12_PushAndReplaceFlushAndReset ==
    [][(lastInput'.kind \in {"pushState", "replaceState"} /\ lastInput'.hasUrl)
          => /\ Cardinality(Positions(sent', "navigation")) = 1
             /\ Cardinality(Positions(sent', "pageexit")) = 1
             /\ \A n \in Positions(sent', "navigation") :
                \A x \in Positions(sent', "pageexit") :
                   /\ n < x
                   /\ \A a \in Positions(sent', "form_abandonment") : n < a /\ a < x
                   /\ sent'[x].eventData.clickCount = clickCount
                   /\ sent'[x].eventData.maxScrollDepth = maxScrollDepth
                   /\ sent'[x].eventData.rageClickCount = rageClickCount
                   /\ sent'[x].eventData.deadClickCount = deadClickCount
                   /\ \/ \E v \in Positions(sent', "pageview") : x < v
                      \/ \E t \in DOMAIN timers' : timers'[t].kind = "pageview"
             /\ recentClicks' = <<>> /\ mouseMovements' = <<>>
             /\ maxScrollDepth' = 0 /\ lastScrollDepthSent' = 0
             /\ clickCount' = 0 /\ rageClickCount' = 0 /\ deadClickCount' = 0
             /\ activeForms' = <<>>]_vars

\* the record of f has an interacted field and the form a filled field
Engaged(f) ==
    /\ HasForm(activeForms, f)
    /\ Len(FormData(activeForms, f).fieldsInteracted) > 0
    /\ PartiallyFilled(f)

Flush == {"pushState", "popstate", "pageexit"}

\* C13: once a history push, a popstate or an unload/hide flush has run, no
\* form record is live, and for every record that was live and engaged
\* exactly one form_abandonment was emitted, before the pageexit of the
\* flush.
C13_FlushAbandonsEveryLiveRecord ==
    [][lastInput'.kind \in Flush
          => /\ activeForms' = <<>>
             /\ \A f \in DOMAIN dom :
                   Engaged(f) =>
                      /\ Cardinality(Abandonments(sent', dom[f].id)) = 1
                      /\ \A a \in Abandonments(sent', dom[f].id) :
                         \A x \in Positions(sent', "pageexit") : a < x]_vars

\* C13 witness: a flush found two live engaged records, emitted the
\* abandonment of both and left none.
C13_Witness ==
    /\ lastInput.kind \in Flush
    /\ activeForms = <<>>
    /\ \A f \in DOMAIN dom : Abandonments(sent, dom[f].id) # {}
    /\ Len(dom) = 2

\* ---------------------------------------------------------------------
\* Scrolling: a document 1000px taller than the window, and one that fits
\* ---------------------------------------------------------------------
ScrollPositions ==
    {[scrollTop |-> t, scrollHeight |-> 1000] : t \in {100, 300, 600, 1000}}
        \cup {[scrollTop |-> 0, scrollHeight |-> 0]}

InitScroll == InitWith(<<>>, NoPointer)

ScrollTo == \E pos \in ScrollPositions : Len(scrollHist) < MaxScrolls /\ Scroll(0, pos)

ScrollDebounced == \E i \in DOMAIN timers : FireTimer(i)

NextScroll ==
    /\ interactionCount < MaxInteractions
    /\ (ScrollTo \/ ScrollDebounced \/ PopState)

SpecScroll == InitScroll /\ [][NextScroll]_vars

\* the milestones reported on this page
Reported ==
    UNION {{scrollHist[i].milestones[a] : a \in DOMAIN scrollHist[i].milestones} :
              i \in DOMAIN scrollHist}

\* C14: after any sequence of scroll events every milestone at or below the
\* scroll high-water mark has been reported: a scroll event that crosses
\* several milestones reports each of them.
C14_EveryCrossedMilestoneReported ==
    \A i \in DOMAIN Milestones :
        maxScrollDepth >= Milestones[i] => Milestones[i] \in Reported

\* the scroll events i..k of the page scrolled to the depths ds
DepthsAre(i, ds) ==
    /\ i + Len(ds) - 1 <= Len(scrollHist)
    /\ \A k \in DOMAIN ds : scrollHist[i + k - 1].depth = ds[k]

\* C15: between two page resets the scroll_milestone events come in
\* strictly ascending milestone order, hence each milestone at most once,
\* also when the depth falls and rises again; the maxDepth of each is at
\* least its depth; scroll events at the depths 10, 30, 60 report 25 and then
\* 50, once each.
C15_MilestonesAscendOncePerPage ==
    /\ \A i \in DOMAIN scrollHist : \A j \in DOMAIN scrollHist :
          \A a \in DOMAIN scrollHist[i].milestones :
             \A b \in DOMAIN scrollHist[j].milestones :
                (i < j \/ (i = j /\ a < b))
                   => scrollHist[i].milestones[a] < scrollHist[j].milestones[b]
    /\ \A j \in Positions(sent, "scroll_milestone") :
          sent[j].eventData.maxDepth >= sent[j].eventData.depth
    /\ DepthsAre(1, <<10, 30, 60>>)
          => /\ scrollHist[1].milestones = <<>>
             /\ scrollHist[2].milestones = <<25>>
             /\ scrollHist[3].milestones = <<50>>

\* C15 witness: the depth rose past 25, fell, and rose past 50: 25 was
\* reported at the first rise and 50, not 25, at the second.
C15_Witness ==
    /\ DepthsAre(1, <<30, 10, 60>>)
    /\ Len(scrollHist) = 3
    /\ scrollHist[1].milestones = <<25>>
    /\ scrollHist[3].milestones = <<50>>
    /\ lastInput.kind = "scroll"

AbandonmentReasons ==
    {"form_removed", "container_removed", "cancel_clicked", "page_exit",
     "page_navigation", "escape_pressed"}

\* C16: every form_abandonment envelope, whatever triggered it, the public
\* reportFormAbandonment call included, carries one of the six reasons
\* form_removed, container_removed, cancel_clicked, page_exit,
\* page_navigation, escape_pressed.
C16_AbandonmentReasonInSet ==
    \A j \in Positions(sent, "form_abandonment") :
        sent[j].eventData.reason \in AbandonmentReasons

Live(af) == {f \in DOMAIN dom : HasForm(af, f)}

\* C17: a submit event emits exactly one form_submit and nothing else.  For
\* a form with a live record the envelope carries the record's data and the
\* record is destroyed in the same step; for a form without a record the
\* envelope is bare and no record is created.  Once a lifecycle has ended
\* in form_submit, no form_abandonment is emitted for the form before a new
\* form_start.
C17_SubmitEndsLifecycle ==
    /\ [][lastInput'.kind = "submit"
            => LET f == lastInput'.form
               IN  /\ Len(sent') = 1
                   /\ IsFormEvent(sent'[1], "form_submit", dom[f].id)
                   /\ Live(activeForms') = Live(activeForms) \ {f}
                   /\ IF HasForm(activeForms, f)
                      THEN /\ sent'[1].eventData.fieldsInteracted
                                = Len(FormData(activeForms, f).fieldsInteracted)
                           /\ "timeToComplete" \in DOMAIN sent'[1].eventData
                      ELSE DOMAIN sent'[1].eventData = {"info"}]_vars
    /\ [][\A f \in DOMAIN dom :
             formHist[dom[f].id].submitted
                => /\ Abandonments(sent', dom[f].id) = {}
                   /\ ~HasForm(activeForms, f)]_vars

\* C17 witness: the form was engaged and submitted, and a later removal,
\* timer or page exit emitted no form_abandonment for it.
C17_Witness ==
    \E f \in DOMAIN dom :
        /\ formHist[dom[f].id].submitted
        /\ PartiallyFilled(f)
        /\ lastInput.kind \in {"remove", "removeContainer", "timer", "pageexit",
                               "pushState", "popstate"}
        /\ Abandonments(sent, dom[f].id) = {}

\* the step is a focus entering a field of the form f, which has no record
FirstFocus(inp, f) ==
    inp.kind = "focus" /\ inp.form = f /\ ~HasForm(activeForms, f)

FormStarts(out, id) == {j \in DOMAIN out : IsFormEvent(out[j], "form_start", id)}

\* C18: there is at most one live record per form element.  A record is
\* created exactly by a focus entering a field of a form that has no live
\* record, and that step emits exactly one form_start for the form; no
\* other step emits form_start, in particular no focus in a form whose
\* record is live.
C18_OneRecordOneFormStart ==
    /\ [](\A i \in DOMAIN activeForms : \A j \in DOMAIN activeForms :
             activeForms[i].form = activeForms[j].form => i = j)
    /\ [][\A f \in DOMAIN dom :
             /\ (HasForm(activeForms', f) /\ ~HasForm(activeForms, f))
                   <=> FirstFocus(lastInput', f)
             /\ Cardinality(FormStarts(sent', dom[f].id))
                   = (IF FirstFocus(lastInput', f) THEN 1 ELSE 0)]_vars

\* C18 witness: both forms have a live record, and a further focus in one
\* of them emitted form_interact without form_start.
C18_Witness ==
    /\ lastInput.kind = "focus"
    /\ Len(activeForms) = 2
    /\ sent # <<>>
    /\ FormStarts(sent, dom[lastInput.form].id) = {}

\* ---------------------------------------------------------------------
\* Click bursts: clicks around one place, 100ms or 500ms apart
\* ---------------------------------------------------------------------
MaxBurst == 6

BurstGaps == {100, 500}

BurstPoints == {<<100, 100>>, <<110, 105>>, <<120, 95>>}

InitBurst == InitWith(<<>>, NoPointer)

NextBurst ==
    \E dt \in BurstGaps, p \in BurstPoints :
        /\ Len(clickHist) < MaxBurst
        /\ TrackClick(dt, [clientX |-> p[1], clientY |-> p[2], target |-> PlainElement])

SpecBurst == InitBurst /\ [][NextBurst]_vars

\* C19: two rage_click emissions of a page are at least 3 click events
\* apart, every rage_click has clickCount >= 3 and timeWindow < 500, and its
\* clickCount is at most the number of clicks made since the previous
\* rage_click: no click is counted in two emissions.
C19_RageClicksShareNoClick ==
    /\ \A i \in DOMAIN clickHist : \A j \in DOMAIN clickHist :
          (i < j /\ clickHist[i].rage /\ clickHist[j].rage) => j - i >= 3
    /\ \A j \in Positions(sent, "rage_click") :
          /\ sent[j].eventData.clickCount >= 3
          /\ sent[j].eventData.timeWindow < 500
          /\ sent[j].eventData.clickCount
                <= Len(clickHist) - LastRageBefore(Len(clickHist))
    /\ HasType(sent, "rage_click") => recentClicks = <<>>

\* C19 witness: a second rage_click, three clicks after the first.
C19_Witness ==
    /\ Len(clickHist) = 6
    /\ clickHist[3].rage /\ clickHist[6].rage
    /\ HasType(sent, "rage_click")

\* the buffer is empty when click i is made
FreshAt(i) == i = 1 \/ clickHist[i - 1].rage

\* C20: three clicks made from an empty buffer within 300ms, all less than
\* 50px from the first on each axis, emit no rage_click at the first two and
\* exactly one, with clickCount 3, at the third.
C20_ThreeClicksOneRageClick ==
    \A i \in DOMAIN clickHist :
        (/\ FreshAt(i) /\ i + 2 <= Len(clickHist)
         /\ clickHist[i + 2].time - clickHist[i].time < 300
         /\ Near(i + 1, i) /\ Near(i + 2, i))
        => /\ ~clickHist[i].rage /\ ~clickHist[i + 1].rage /\ clickHist[i + 2].rage
           /\ i + 2 = Len(clickHist)
                 => /\ RageCount(sent) = 1
                    /\ \A j \in Positions(sent, "rage_click") :
                          sent[j].eventData.clickCount = 3

\* C20 witness: the clicks (100,100), (110,105), (120,95), 100ms apart, and
\* the rage_click of the third.
C20_Witness ==
    /\ Len(clickHist) = 3
    /\ <<clickHist[1].x, clickHist[1].y>> = <<100, 100>>
    /\ <<clickHist[2].x, clickHist[2].y>> = <<110, 105>>
    /\ <<clickHist[3].x, clickHist[3].y>> = <<120, 95>>
    /\ clickHist[3].time - clickHist[1].time = 200
    /\ RageCount(sent) = 1
    /\ sent[1].eventData.clickCount = 3

\* ---------------------------------------------------------------------
\* Field order: a form with the fields A, B, C, of which A and B are required
\* ---------------------------------------------------------------------
OrderDoc ==
    <<[id |-> "order", container |-> "page", attached |-> TRUE, rendered |-> TRUE,
       fixed |-> FALSE,
       fields |-> <<Field("A", "text", TRUE), Field("B", "text", TRUE),
                    Field("C", "text", FALSE)>>]>>

InitOrder == InitWith(OrderDoc, NoPointer)

NextOrder ==
    /\ interactionCount < MaxInteractions
    /\ (FormFocus \/ FormInput \/ FormSubmit)

SpecOrder == InitOrder /\ [][NextOrder]_vars

Skips(out) == Positions(out, "form_field_skip")

\* C21: the user has focused A, A holds a value, B is empty and no
\* form_field_skip has been emitted in the lifecycle; the focus then enters
\* C.  That step emits exactly one form_field_skip, with skippedField B and
\* movedToField C, and B is the only field named by a form_field_skip of the
\* lifecycle.
C21_FocusPastEmptyRequiredField ==
    [][(/\ lastInput'.kind = "focus" /\ lastInput'.field = 3
        /\ HasForm(activeForms, 1)
        /\ FormData(activeForms, 1).fieldsInteracted = <<"A">>
        /\ NotBlank(dom[1].fields[1].value)
        /\ dom[1].fields[2].value = ""
        /\ \A n \in DOMAIN formHist["order"].skips : formHist["order"].skips[n] = 0)
       => /\ Cardinality(Skips(sent')) = 1
          /\ \A j \in Skips(sent') :
                /\ sent'[j].eventData.skippedField = "B"
                /\ sent'[j].eventData.movedToField = "C"
          /\ formHist'["order"].skips = [n \in {"A", "B", "C"} |->
                                            IF n = "B" THEN 1 ELSE 0]]_vars

\* C21 witness: A was focused and filled, then C was focused over the
\* empty B, and the skip of B was emitted.
C21_Witness ==
    /\ lastInput.kind = "focus" /\ lastInput.field = 3
    /\ FormData(activeForms, 1).fieldsInteracted = <<"A", "C">>
    /\ NotBlank(dom[1].fields[1].value)
    /\ dom[1].fields[2].value = ""
    /\ formHist["order"].skips["B"] = 1
    /\ Cardinality(Skips(sent)) = 1

\* ---------------------------------------------------------------------
\* Friction counters: clicks at one place on a plain element or on one that
\* only looks clickable, navigation resets, and readings of the statistics
\* ---------------------------------------------------------------------
MaxFriction == 8

FrictionGaps == {100, 500}

FakeButton == [PlainElement EXCEPT !.classes = <<"btn">>]

FrictionTargets == {PlainElement, FakeButton}

InitFriction == InitWith(<<>>, NoPointer)

FrictionClick ==
    \E dt \in FrictionGaps, el \in FrictionTargets :
        TrackClick(dt, [clientX |-> 100, clientY |-> 100, target |-> el])

NextFriction ==
    /\ interactionCount < MaxFriction
    /\ (FrictionClick \/ PopState \/ GetFrustrationStats)

SpecFriction == InitFriction /\ [][NextFriction]_vars

\* C22: a click emits at most one of rage_click and dead_click; when its
\* rage check fires, the dead-click counter is left as it was.
C22_RageExcludesDead ==
    [][lastInput'.kind = "click"
          => /\ Cardinality(Positions(sent', "rage_click"))
                   + Cardinality(Positions(sent', "dead_click")) <= 1
             /\ (HasType(sent', "rage_click") => deadClickCount' = deadClickCount)]_vars

\* C22 witness: the third quick click on an element that only looks
\* clickable: rage_click is emitted, dead_click is not, and the dead-click
\* counter holds the two earlier clicks.
C22_Witness ==
    /\ lastInput.kind = "click"
    /\ lastInput.ev.target = FakeButton
    /\ HasType(sent, "rage_click")
    /\ ~HasType(sent, "dead_click")
    /\ deadClickCount = 2

Flagged(flag) == Cardinality({i \in DOMAIN clickHist : clickHist[i][flag]})

\* C23: the rage-click and dead-click counters equal the numbers of
\* rage_click and dead_click envelopes emitted since the last page load or
\* navigation reset; the totals carried by the envelopes and the values
\* getFrustrationStats returns are the counters; a counter decreases only in
\* a page or navigation transition, and reading the statistics changes
\* nothing.
C23_CountersCountEmissions ==
    /\ [](/\ rageClickCount = Flagged("rage")
          /\ deadClickCount = Flagged("dead")
          /\ \A j \in Positions(sent, "rage_click") :
                sent[j].eventData.totalRageClicks = rageClickCount
          /\ \A j \in Positions(sent, "dead_click") :
                sent[j].eventData.totalDeadClicks = deadClickCount
          /\ (lastInput.kind = "stats") =>
                (/\ lastInput.ret.rageClicks = rageClickCount
                 /\ lastInput.ret.deadClicks = deadClickCount))
    /\ [][/\ (lastInput'.kind \notin PageChange) =>
               (/\ rageClickCount' >= rageClickCount
                /\ deadClickCount' >= deadClickCount)
          /\ (lastInput'.kind = "stats") =>
               (/\ sent' = <<>>
                /\ UNCHANGED <<now, sessionStore, visitorStore, idsMinted, dom, timers,
                               sessionId, pageEntryTime, maxScrollDepth, clickCount,
                               isVisible, totalVisibleTime, lastVisibilityChange,
                               lastScrollDepthSent, interactionCount, recentClicks,
                               mouseMovements, lastMousePosition, deadClickCount,
                               rageClickCount, activeForms>>)]_vars

\* C23 witness: the statistics read after one rage_click and two
\* dead_clicks on this page.
C23_Witness ==
    /\ lastInput.kind = "stats"
    /\ lastInput.ret.rageClicks = 1
    /\ lastInput.ret.deadClicks = 2

\* ---------------------------------------------------------------------
\* Click targets on which a detector raises
\* ---------------------------------------------------------------------
MaxFaultClicks == 3

FaultGaps == {100, 500}

\* the document node, target of a click dispatched on document itself
DocumentNode == [PlainElement EXCEPT !.tag = "", !.node = "document"]

\* an element of a non-HTML namespace that carries the class "btn"
ForeignElement == [PlainElement EXCEPT !.tag = "item", !.node = "foreign",
                                       !.classes = <<"btn">>]

\* <progress value="0.5">: no text, and a value that is a number
ProgressBar == [PlainElement EXCEPT !.tag = "progress", !.numericValue = TRUE]

FaultTargets == {PlainElement, DocumentNode, ForeignElement, ProgressBar}

InitFault == InitWith(<<>>, NoPointer)

FaultClick ==
    \E dt \in FaultGaps, el \in FaultTargets :
        TrackClick(dt, [clientX |-> 100, clientY |-> 100, target |-> el])

NextFault ==
    /\ clickCount < MaxFaultClicks
    /\ FaultClick

SpecFault == InitFault /\ [][NextFault]_vars

\* C27: whatever the target of a click, and so also when rage-click,
\* dead-click or cancel-click detection raises on it, the click listener
\* still emits the click event of that interaction.
C27_ClickEmittedDespiteFailure ==
    lastInput.kind = "click" => HasType(sent, "click")

\* ---------------------------------------------------------------------
\* Clicks and pointer samples interleaved at one rate
\* ---------------------------------------------------------------------
MaxBufEvents == 6

\* the spacing of the events of a run: a burst, a brisk and a slow rate
BufferGaps == {25, 300, 1990}

InitBuffers ==
    \E gap \in BufferGaps :
        InitWith(<<>>, [gap |-> gap, points |-> {[clientX |-> 0, clientY |-> 0]}])

BufferClick ==
    TrackClick(pointer.gap, [clientX |-> 100, clientY |-> 100, target |-> PlainElement])

BufferMove ==
    \E p \in pointer.points : TrackMouseMove(pointer.gap, p)

NextBuffers ==
    /\ now < MaxBufEvents * pointer.gap
    /\ (BufferClick \/ BufferMove)

SpecBuffers == InitBuffers /\ [][NextBuffers]_vars

\* the step accepted its mousemove: the sample is the newest of the buffer
SampleAccepted ==
    /\ lastInput.kind = "mousemove"
    /\ mouseMovements # <<>>
    /\ mouseMovements[Len(mouseMovements)].time = now

\* C24: after a click every sample of the click buffer is less than 500ms
\* older than that click, and after an accepted mouse sample every sample
\* of the mouse buffer is less than 2000ms older than that sample, at any
\* rate of events.
C24_BuffersWithinWindow ==
    /\ (lastInput.kind = "click" =>
           \A i \in DOMAIN recentClicks :
               /\ recentClicks[i].time <= now
               /\ now - recentClicks[i].time < 500)
    /\ (SampleAccepted =>
           \A i \in DOMAIN mouseMovements :
               /\ mouseMovements[i].time <= now
               /\ now - mouseMovements[i].time < 2000)

\* C24 witness: a third click 300ms after the second, the first click
\* being older than the window: it has left the click buffer, and the mouse
\* buffer holds the one sample accepted in between.
C24_Witness ==
    /\ lastInput.kind = "click"
    /\ clickCount = 3
    /\ Len(recentClicks) = 2
    /\ recentClicks[1].time = now - 300
    /\ Len(mouseMovements) = 1

\* ---------------------------------------------------------------------
\* Delivery: clicks in browsers with and without sendBeacon, on a network
\* that comes and goes
\* ---------------------------------------------------------------------
MaxSendEvents == 5

SendGaps == {100, 500}

SendTargets == {PlainElement, FakeButton}

Browsers ==
    {[Blank EXCEPT !.net = [beacon |-> b, up |-> u]] : b \in BOOLEAN, u \in BOOLEAN}

InitSend == \E b \in Browsers : InitOn(b, <<>>, NoPointer)

SendClick ==
    \E dt \in SendGaps, el \in SendTargets :
        TrackClick(dt, [clientX |-> 100, clientY |-> 100, target |-> el])

\* the network fails or recovers
NetChange ==
    Commit([Cur EXCEPT !.net.up = ~@], [kind |-> "network"])

NextSend ==
    /\ interactionCount < MaxSendEvents
    /\ (SendClick \/ NetChange)

SpecSend == InitSend /\ [][NextSend]_vars

\* the engine's own variables in a state record
Engine(s) ==
    <<s.sessionStore, s.visitorStore, s.idsMinted, s.timers, s.sessionId,
      s.pageEntryTime, s.maxScrollDepth, s.clickCount, s.isVisible,
      s.totalVisibleTime, s.lastVisibilityChange, s.lastScrollDepthSent,
      s.interactionCount, s.recentClicks, s.mouseMovements, s.lastMousePosition,
      s.deadClickCount, s.rageClickCount, s.activeForms>>

\* C28: every envelope of a click step has exactly one delivery attempt, by
\* sendBeacon when the browser has it and by fetch otherwise, carrying the
\* next interactionIndex whether the delivery succeeds or not; the handler
\* does not raise, and run on the same state with the network in the other
\* condition it reaches the same engine state and emits the same envelopes.
C28_OneAttemptPerEmit ==
    [][lastInput'.kind = "click" =>
          LET other == trackClick([At(Cur, now' - now) EXCEPT !.net.up = ~@],
                                  lastInput'.ev)
          IN  /\ Len(wire') = Len(sent')
              /\ sent' # <<>>
              /\ \A i \in DOMAIN wire' :
                    /\ wire'[i].via = (IF net.beacon THEN "beacon" ELSE "fetch")
                    /\ wire'[i].ok = net.up
                    /\ wire'[i].index = sent'[i].interactionIndex
                    /\ wire'[i].index = interactionCount + i
              /\ interactionCount' = interactionCount + Len(sent')
              /\ ~other.thrown
              /\ other.out = sent'
              /\ Engine(other) = Engine(Cur)']_vars

\* C28 witness: a click on an element that only looks clickable, in a
\* browser without sendBeacon while the network is down: dead_click and
\* click each made one failed fetch.
C28_Witness ==
    /\ lastInput.kind = "click"
    /\ ~net.beacon /\ ~net.up
    /\ Len(sent) = 2
    /\ Len(wire) = 2
    /\ wire[1].via = "fetch" /\ ~wire[1].ok
    /\ wire[2].via = "fetch" /\ ~wire[2].ok

\* ---------------------------------------------------------------------
\* A feedback form pinned to the viewport (position: fixed)
\* ---------------------------------------------------------------------
MaxOverlayEvents == 4

OverlayDoc ==
    <<[id |-> "feedback", container |-> "page", attached |-> TRUE, rendered |-> TRUE,
       fixed |-> TRUE,
       fields |-> <<Field("comment", "text", TRUE), Field("email", "email", FALSE)>>]>>

InitOverlay == InitWith(OverlayDoc, NoPointer)

NextOverlay ==
    /\ interactionCount < MaxOverlayEvents
    /\ (FormFocus \/ FormInput \/ FormRendered \/ FormKey \/ FormTimer)

SpecOverlay == InitOverlay /\ [][NextOverlay]_vars

\* C29: a key other than Escape schedules and emits nothing.  When the
\* callback of an Escape keypress runs, every live record whose form is no
\* longer shown is destroyed, with exactly one form_abandonment of reason
\* escape_pressed if it was engaged, and every live record whose form is
\* still shown stays as it was and no event is emitted for its form.
C29_EscapeAbandonsHiddenFormsOnly ==
    [][/\ (lastInput'.kind = "keydown" /\ lastInput'.key # "Escape")
            => (timers' = timers /\ sent' = <<>> /\ activeForms' = activeForms)
       /\ (lastInput'.kind = "timer" /\ lastInput'.timer = "escape")
            => \A f \in Live(activeForms) :
                   IF Shown(f)
                   THEN /\ HasForm(activeForms', f)
                        /\ FormData(activeForms', f) = FormData(activeForms, f)
                        /\ Abandonments(sent', dom[f].id) = {}
                   ELSE /\ ~HasForm(activeForms', f)
                        /\ Engaged(f) =>
                              /\ Cardinality(Abandonments(sent', dom[f].id)) = 1
                              /\ \A a \in Abandonments(sent', dom[f].id) :
                                    sent'[a].eventData.reason = "escape_pressed"]_vars

\* ---------------------------------------------------------------------
\* Visitors: a first visit and a return visit, with clicks, navigation,
\* reloads and sessions that expire
\* ---------------------------------------------------------------------
MaxVisitorEvents == 4

MaxVisits == 2

\* a browser that holds the id of an earlier visit
ReturningBrowser == [Blank EXCEPT !.visitorStore = 100]

StoredVisitor == ReturningBrowser.visitorStore

VisitorBrowsers == {Blank, ReturningBrowser}

InitVisitor == \E b \in VisitorBrowsers : InitOn(b, <<>>, NoPointer)

VisitorClick ==
    \E dt \in SessionGaps :
        TrackClick(dt, [clientX |-> 100, clientY |-> 100, target |-> PlainElement])

VisitorReload ==
    \E dt \in SessionGaps :
        /\ pageLoad < MaxVisits
        /\ Reload(dt, <<>>)

NextVisitor ==
    \/ interactionCount < MaxVisitorEvents /\ (VisitorClick \/ PopState \/ GetVisitorId)
    \/ VisitorReload

SpecVisitor == InitVisitor /\ [][NextVisitor]_vars

\* C30: durable storage always holds a visitor id, the one it held before
\* the first load or else one minted then; no step replaces it, every
\* envelope carries it and getVisitorId returns it, across reloads, new
\* sessions and navigation resets; with an id in storage the first load
\* mints the session id only.
C30_VisitorIdMintedOnce ==
    /\ [](/\ visitorStore # NoId
          /\ (visitorStore = StoredVisitor \/ visitorStore \in 1..idsMinted)
          /\ \A i \in DOMAIN sent : sent[i].visitorId = visitorStore
          /\ (lastInput.kind = "visitor" => lastInput.id = visitorStore)
          /\ (pageLoad = 1 /\ lastInput.kind = "load" /\ visitorStore = StoredVisitor
                 => idsMinted = 1))
    /\ [][visitorStore' = visitorStore]_vars

\* C30 witness: the pageview of a reload that began a new session carries
\* the visitor id minted on the first load, the third id minted being that
\* of the new session.
C30_Witness ==
    /\ lastInput.kind = "load"
    /\ pageLoad = 2
    /\ sessionId = 3
    /\ visitorStore = 2
    /\ sent # <<>>
    /\ sent[1].visitorId = 2

\* ---------------------------------------------------------------------
\* The debounced scroll summary
\* ---------------------------------------------------------------------
\* the pending debounce timers
Debounces(ts) == {i \in DOMAIN ts : ts[i].kind = "scroll"}

\* C32: a scroll event emits no summary and leaves exactly one debounce
\* timer pending, of 500ms, whatever was pending before; a scroll summary
\* is emitted only by that timer firing, once, with the depth reached, and
\* leaves no debounce timer behind: a burst of scroll events yields one
\* summary, after its last event.
C32_ScrollSummaryDebounced ==
    [][/\ (lastInput'.kind = "scroll")
            => (/\ ~HasType(sent', "scroll")
                /\ Cardinality(Debounces(timers')) = 1
                /\ \A i \in Debounces(timers') :
                      i = Len(timers') /\ timers'[i].delay = 500)
       /\ HasType(sent', "scroll")
            => (/\ lastInput'.kind = "timer" /\ lastInput'.timer = "scroll"
                /\ Cardinality(Debounces(timers)) = 1
                /\ Cardinality(Positions(sent', "scroll")) = 1
                /\ \A j \in Positions(sent', "scroll") :
                      sent'[j].eventData.depth = maxScrollDepth
                /\ Debounces(timers') = {})]_vars

\* C32 witness: the summary of a burst of three scroll events.
C32_Witness ==
    /\ lastInput.kind = "timer"
    /\ lastInput.timer = "scroll"
    /\ HasType(sent, "scroll")
    /\ Len(scrollHist) = 3
    /\ timers = <<>>

\* ---------------------------------------------------------------------
\* In-page navigation over a live form record
\* ---------------------------------------------------------------------
\* C39: a history push or a popstate made while a form has a live, engaged
\* record emits one form_abandonment for that form, and its reason is
\* page_navigation.
C39_NavigationAbandonsWithPageNavigation ==
    [][\A f \in DOMAIN dom :
          (lastInput'.kind \in {"pushState", "popstate"} /\ Engaged(f))
              => /\ Cardinality(Abandonments(sent', dom[f].id)) = 1
                 /\ \A a \in Abandonments(sent', dom[f].id) :
                       sent'[a].eventData.reason = "page_navigation"]_vars

\* ---------------------------------------------------------------------
\* Visible time: the tab is hidden and shown, the page is left
\* ---------------------------------------------------------------------
MaxVisibleEvents == 5

\* beforeunload and pagehide of one unload come together; other events are
\* a second apart
VisibleGaps == {0, 1000}

\* the document alternates between visible and hidden
TabSwitch ==
    \E dt \in VisibleGaps : VisibilityChange(dt, isVisible)

Unload ==
    \E dt \in VisibleGaps : PageExitAfter(dt)

InitVisible == InitWith(<<>>, NoPointer)

NextVisible ==
    /\ interactionCount < MaxVisibleEvents
    /\ (TabSwitch \/ Unload)

SpecVisible == InitVisible /\ [][NextVisible]_vars

\* C38: every pageexit has activeTime <= timeOnPage and every visibility
\* event has visibleTime <= timeOnPage.
C38_VisibleTimeWithinTimeOnPage ==
    /\ \A j \in Positions(sent, "pageexit") :
          sent[j].eventData.activeTime <= sent[j].eventData.timeOnPage
    /\ \A j \in Positions(sent, "visibility") :
          sent[j].eventData.visibleTime <= sent[j].eventData.timeOnPage

\* ---------------------------------------------------------------------
\* The click event of a click
\* ---------------------------------------------------------------------
\* C40: every click emits exactly one click event, the last envelope of its
\* step and so after any rage_click or dead_click of the same click, with
\* isRageClick and isDeadClick true exactly when that signal was emitted
\* for the click.
C40_OneClickEventAfterSignals ==
    lastInput.kind = "click" =>
        /\ Cardinality(Positions(sent, "click")) = 1
        /\ \A j \in Positions(sent, "click") :
              /\ j = Len(sent)
              /\ \A k \in Positions(sent, "rage_click") \cup Positions(sent, "dead_click") :
                    sent[k].interactionIndex < sent[j].interactionIndex
              /\ sent[j].eventData.isRageClick = HasType(sent, "rage_click")
              /\ sent[j].eventData.isDeadClick = HasType(sent, "dead_click")

\* ---------------------------------------------------------------------
\* A login form whose password field is typed into and clicked
\* ---------------------------------------------------------------------
MaxSecretEvents == 5

\* what the user types into the password field
Secret == "hunter2"

IsPassword(f, i) == dom[f].fields[i].type = "password"

\* the input element of field i of form f as a click target: an input has
\* no innerText, its text is its value
FieldTarget(f, i) ==
    [PlainElement EXCEPT !.tag = "input", !.type = dom[f].fields[i].type,
                         !.text = dom[f].fields[i].value, !.nearForm = f]

SecretTyped ==
    \E f \in DOMAIN dom : \E i \in DOMAIN dom[f].fields :
        IsPassword(f, i) /\ SetValue(f, i, Secret)

FieldClick ==
    \E f \in DOMAIN dom : \E i \in DOMAIN dom[f].fields :
        /\ Shown(f)
        /\ TrackClick(0, [clientX |-> 100, clientY |-> 100, target |-> FieldTarget(f, i)])

InitSecret == InitWith(LoginDoc, NoPointer)

NextSecret ==
    /\ interactionCount < MaxSecretEvents
    /\ (FormFocus \/ SecretTyped \/ FieldClick \/ FormSubmit \/ FormRemoved
          \/ PageExit \/ PopState)

SpecSecret == InitSecret /\ [][NextSecret]_vars

\* C34: no click envelope carries the value typed into the password field,
\* and a focus on the password field emits no form_interact.
C34_PasswordValueNeverEmitted ==
    /\ \A j \in Positions(sent, "click") : sent[j].eventData.elementText # Secret
    /\ (lastInput.kind = "focus" /\ IsPassword(lastInput.form, lastInput.field))
          => ~HasType(sent, "form_interact")

\* ---------------------------------------------------------------------
\* Deferred checks and records that begin after them
\* ---------------------------------------------------------------------
MaxStaleEvents == 8

\* a focus comes some milliseconds after the event before it, well within
\* the 100ms of a deferred check
FocusGaps == {10}

StaleFocus ==
    \E f \in DOMAIN dom : \E i \in DOMAIN dom[f].fields : \E dt \in FocusGaps :
        FocusAfter(dt, f, i)

InitStale == InitWith(SignupDoc, NoPointer)

NextStale ==
    /\ interactionCount < MaxStaleEvents
    /\ (StaleFocus \/ FormInput \/ FormSubmit \/ FormCancel \/ FormTimer)

SpecStale == InitStale /\ [][NextStale]_vars

\* the record of f began after the last click on the page
BeganAfterLastClick(f) ==
    /\ HasForm(activeForms, f)
    /\ clickHist # <<>>
    /\ FormData(activeForms, f).startTime > clickHist[Len(clickHist)].time

\* C33: when the check deferred by a cancel click runs, a record that
\* began after that click (the record that was live at the click having
\* been destroyed in between) is left alone: it stays live and no
\* form_abandonment is emitted for its form.
C33_StaleTimerSparesNewRecord ==
    [][(lastInput'.kind = "timer" /\ lastInput'.timer = "cancel")
          => \A f \in DOMAIN dom :
                BeganAfterLastClick(f)
                    => /\ HasForm(activeForms', f)
                       /\ Abandonments(sent', dom[f].id) = {}]_vars

\* ---------------------------------------------------------------------
\* Screenshot requests from frames of two origins, overlapping
\* ---------------------------------------------------------------------
MaxRequests == 3

\* the origin of the tracker script and that of some other frame
Origins == {"https://insights.example", "https://elsewhere.example"}

ScriptOrigin == "https://insights.example"

\* the n-th request carries n as its requestId
Messages ==
    {[origin |-> o, type |-> t, requestId |-> Len(shot.caps) + 1] :
        o \in Origins, t \in {"BI_SCREENSHOT_REQUEST", "BI_OTHER"}}

ShotMessage ==
    \E msg \in Messages : Len(shot.caps) < MaxRequests /\ Message(msg)

ShotRendered == \E c \in DOMAIN shot.caps : \E ok \in BOOLEAN : CaptureSettles(c, ok)

ShotUploaded ==
    \E c \in DOMAIN shot.caps : \E outcome \in UploadOutcomes : UploadSettles(c, outcome)

InitShot == InitWith(<<>>, NoPointer)

NextShot == ShotMessage \/ ScriptLoad \/ ScriptError \/ ShotRendered \/ ShotUploaded

SpecShot == InitShot /\ [][NextShot]_vars

\* C35: a message whose origin is not that of the tracker script changes
\* nothing: no capture is begun, no library load, no response.
C35_ForeignOriginIgnored ==
    [][(lastInput'.kind = "message" /\ lastInput'.origin # ScriptOrigin)
          => shot' = shot]_vars

\* the captures whose html2canvas call has not settled
Rendering == {c \in DOMAIN shot.caps : shot.caps[c].phase = "rendering"}

\* C36: while a capture is rendering the page, the sensitive element is
\* hidden, under every interleaving of overlapping captures.
C36_SensitiveHiddenWhileRendering ==
    Rendering # {} => shot.visibility = "hidden"

\* the responses posted for the request of capture c
Responses(posted, c) ==
    {j \in DOMAIN posted : posted[j].requestId = shot.caps[c].requestId}

\* C31: no request is answered twice, and the step that settles a request
\* posts exactly one response with the requestId of that request: success
\* when the capture was rendered and the upload stored, failure when the
\* rendering failed or the upload did not succeed.
C31_OneCorrelatedResponse ==
    [][/\ \A c \in DOMAIN shot.caps :
             Cardinality(Responses(shot'.posted, c)) <= 1
       /\ (lastInput'.kind \in {"rendered", "uploaded"})
            => LET c == lastInput'.capture
                   n == Len(shot'.posted)
               IN  IF lastInput'.kind = "rendered" /\ lastInput'.ok
                   THEN shot'.posted = shot.posted
                   ELSE /\ n = Len(shot.posted) + 1
                        /\ shot'.posted[n].requestId = shot.caps[c].requestId
                        /\ shot'.posted[n].success
                              = (lastInput'.kind = "uploaded"
                                   /\ lastInput'.outcome = "stored")]_vars

\* the captures whose loader callback is waiting in q
Waiting(q) == {q[i] : i \in DOMAIN q}

\* C37: at most one load of the library is in flight, and there is one
\* exactly while callbacks wait; no callback runs twice; a load event runs
\* every waiting callback once without error, an error event runs every
\* waiting callback once with an error, and either leaves none waiting; a
\* call made once the library is loaded runs its callback at once, a call
\* made while a load is in flight starts no other, and a call made after a
\* failed load starts a new one.
C37_OneLoadEachCallbackOnce ==
    /\ [](/\ shot.scripts <= 1
          /\ (shot.loading <=> shot.scripts = 1)
          /\ (shot.pending # <<>> => shot.loading)
          /\ \A c \in DOMAIN shot.caps :
                /\ shot.caps[c].calls <= 1
                /\ (shot.caps[c].calls = 0 <=> c \in Waiting(shot.pending))
                /\ (shot.caps[c].failed => ~(shot.caps[c].phase = "rendering")))
    /\ [][/\ ((lastInput'.kind = "scriptload")
                => (/\ shot'.loaded /\ shot'.pending = <<>>
                    /\ \A c \in Waiting(shot.pending) :
                          shot'.caps[c].calls = 1 /\ ~shot'.caps[c].failed))
          /\ ((lastInput'.kind = "scripterror")
                => (/\ ~shot'.loaded /\ ~shot'.loading /\ shot'.pending = <<>>
                    /\ \A c \in Waiting(shot.pending) :
                          shot'.caps[c].calls = 1 /\ shot'.caps[c].failed))
          /\ ((lastInput'.kind = "message" /\ Len(shot'.caps) > Len(shot.caps))
                => (LET c == Len(shot'.caps)
                    IN  IF shot.loaded
                        THEN /\ shot'.caps[c].calls = 1 /\ ~shot'.caps[c].failed
                             /\ shot'.scripts = 0
                        ELSE /\ shot'.caps[c].calls = 0
                             /\ shot'.scripts = 1
                             /\ shot'.loading))]_vars

\* C37 witness: a load failed with two callbacks waiting, both were given
\* the error, and the next request has started a new load.
C37_Witness ==
    /\ lastInput.kind = "message"
    /\ Len(shot.caps) = 3
    /\ shot.caps[1].failed /\ shot.caps[1].calls = 1
    /\ shot.caps[2].failed /\ shot.caps[2].calls = 1
    /\ shot.pending = <<3>>
    /\ shot.loading
    /\ shot.scripts = 1

====
